---- MODULE Spec2Model ----
(* A model of the Product Hunt analyzers of dsparkling/product-hunt-analyzer:  *)
(*   src/optimized_product_hunt_analyzer.py  (OptimizedProductHuntAnalyzer)     *)
(*   src/enhanced_product_hunt_analyzer.py   (EnhancedProductHuntAnalyzer)      *)
(*   src/product_hunt_analyzer.py            (ProductHuntAnalyzer)              *)
(*                                                                              *)
(* Strings of the source that are not ASCII are written with ASCII labels:      *)
(* the category names of product_categories are "AI", "Productivity", "Dev",    *)
(* "Design", "ProjectMgmt", "Marketing", "Education", "Health", "Finance",      *)
(* "Entertainment" (in the declared order) and the default bucket is "Other".   *)
EXTENDS Integers, Sequences, FiniteSets, TLC

VARIABLES
    fn,                 \* the operation applied last ("init" before any)
    arg,                \* the input the operation was applied to
    ret,                \* what the operation returned
    \* the state of one run_analysis
    pc,                 \* where run_analysis is
    raw_products,       \* what fetch_daily_hot returned
    futures,            \* the pool tasks, one per raw product, in submission order
    enhanced_products,  \* the results gathered by the as_completed loop
    promising_products, \* what rank_promising_products returned
    report,             \* what the report generator was given and made
    files               \* the paths written, each with what was written to it

runVars ==
    <<pc, raw_products, futures, enhanced_products, promising_products, report, files>>
vars == <<fn, arg, ret, pc, raw_products, futures, enhanced_products,
          promising_products, report, files>>

\* No run_analysis is in progress: the specifications of the single operations.
NoRun ==
    /\ pc = "none"
    /\ raw_products = << >>
    /\ futures = << >>
    /\ enhanced_products = << >>
    /\ promising_products = << >>
    /\ report = << >>
    /\ files = {}

NoResult == "no result"

(* ------------------------------------------------------------------------ *)
(* Generic helpers                                                            *)
(* ------------------------------------------------------------------------ *)

Min(a, b) == IF a <= b THEN a ELSE b

\* F(v), v being evaluated once: a local variable of the source that is
\* assigned once and read several times.
Once(v, F(_)) == CHOOSE r \in {F(x) : x \in {v}} : TRUE

RECURSIVE Pad(_)
\* A text of n characters free of any keyword.
Pad(n) ==
    IF n = 0 THEN ""
    ELSE LET half == Pad(n \div 2)
         IN  IF n % 2 = 0 THEN half \o half ELSE half \o half \o "x"

\* Python's `kw in text` for strings (t is text, evaluated once).
Contains(kw, text) ==
    \E t \in {text} :
        \E i \in 1..(Len(t) - Len(kw) + 1) : SubSeq(t, i, i + Len(kw) - 1) = kw

(* ------------------------------------------------------------------------ *)
(* Scoring: OptimizedProductHuntAnalyzer.calculate_market_potential           *)
(* ------------------------------------------------------------------------ *)

BaseScore == 50
VotesTier1 == 400
VotesTier2 == 200
VotesTier3 == 100
VotesBonus1 == 20
VotesBonus2 == 15
VotesBonus3 == 10
CategoryBonus == 15
CompetitionBonus == 10
CompetitionMax == 3
DescriptionBonus == 5
DescriptionMin == 100
ScoreCap == 100

high_potential_categories == {"AI", "Dev", "ProjectMgmt"}

\* A variant with the vote tiers tested by independent ifs and no final clamp.
calculate_market_potential_noclamp(product_info) ==
    LET s0 == BaseScore
        s1 == s0 + (IF product_info.votes > VotesTier1 THEN VotesBonus1 ELSE 0)
                 + (IF product_info.votes > VotesTier2 THEN VotesBonus2 ELSE 0)
                 + (IF product_info.votes > VotesTier3 THEN VotesBonus3 ELSE 0)
        s2 == IF product_info.category \in high_potential_categories
              THEN s1 + CategoryBonus ELSE s1
        s3 == IF Len(product_info.competitors) > 0
                 /\ Len(product_info.competitors) <= CompetitionMax
              THEN s2 + CompetitionBonus ELSE s2
        s4 == IF Len(product_info.description) > DescriptionMin
              THEN s3 + DescriptionBonus ELSE s3
    IN  s4

\* A variant with >= in the vote tiers.
calculate_market_potential_geq(product_info) ==
    LET s0 == BaseScore
        s1 == IF product_info.votes >= VotesTier1 THEN s0 + VotesBonus1
              ELSE IF product_info.votes >= VotesTier2 THEN s0 + VotesBonus2
              ELSE IF product_info.votes >= VotesTier3 THEN s0 + VotesBonus3
              ELSE s0
        s2 == IF product_info.category \in high_potential_categories
              THEN s1 + CategoryBonus ELSE s1
        s3 == IF Len(product_info.competitors) > 0
                 /\ Len(product_info.competitors) <= CompetitionMax
              THEN s2 + CompetitionBonus ELSE s2
        s4 == IF Len(product_info.description) > DescriptionMin
              THEN s3 + DescriptionBonus ELSE s3
    IN  Min(s4, ScoreCap)

calculate_market_potential(product_info) ==
    LET s0 == BaseScore
        s1 == IF product_info.votes > VotesTier1 THEN s0 + VotesBonus1
              ELSE IF product_info.votes > VotesTier2 THEN s0 + VotesBonus2
              ELSE IF product_info.votes > VotesTier3 THEN s0 + VotesBonus3
              ELSE s0
        s2 == IF product_info.category \in high_potential_categories
              THEN s1 + CategoryBonus ELSE s1
        s3 == IF Len(product_info.competitors) > 0
                 /\ Len(product_info.competitors) <= CompetitionMax
              THEN s2 + CompetitionBonus ELSE s2
        s4 == IF Len(product_info.description) > DescriptionMin
              THEN s3 + DescriptionBonus ELSE s3
    IN  Min(s4, ScoreCap)

(* Inputs of the scoring specification. *)
MaxCompetitors == 4
VoteSamples == {0, 1, 50, 99, 100, 101, 199, 200, 201, 399, 400, 401, 450, 523, 9999}
DescLenSamples == {0, 10, 99, 100, 101, 150}
CategoryNames ==
    <<"AI", "Productivity", "Dev", "Design", "ProjectMgmt", "Marketing",
      "Education", "Health", "Finance", "Entertainment">>
DefaultCategory == "Other"
CategoryInputs == {CategoryNames[i] : i \in 1..Len(CategoryNames)} \cup {DefaultCategory, ""}

CompetitorLists == {[j \in 1..n |-> "c"] : n \in 0..MaxCompetitors}

ScoreInputs ==
    [votes : VoteSamples, category : CategoryInputs,
     competitors : CompetitorLists,
     description : {Pad(n) : n \in DescLenSamples}]

InitScore ==
    /\ fn = "init"
    /\ arg \in ScoreInputs
    /\ ret = NoResult
    /\ NoRun

CalculateMarketPotential ==
    /\ fn = "init"
    /\ fn' = "calculate_market_potential"
    /\ ret' = calculate_market_potential(arg)
    /\ UNCHANGED arg
    /\ UNCHANGED runVars

NextScore == CalculateMarketPotential

SpecScore == InitScore /\ [][NextScore]_vars

Scored == fn = "calculate_market_potential"

\* C1: for every record (any votes >= 0, category, competitor list, description
\* length) calculate_market_potential returns an integer in [0,100], also when
\* every bonus applies at once.
C1_ScoreInRange == Scored => (ret \in Int /\ ret >= 0 /\ ret <= 100)

\* All four bonuses apply at the same time and the result is the cap.
C1_Witness ==
    /\ Scored
    /\ arg.votes > 400
    /\ arg.category \in high_potential_categories
    /\ Len(arg.competitors) \in 1..3
    /\ Len(arg.description) > 100
    /\ ret = 100

\* The bonuses as the claim C2 states them.
C2_V(votes) == IF votes > 400 THEN 20 ELSE IF votes > 200 THEN 15
               ELSE IF votes > 100 THEN 10 ELSE 0
C2_C(category) == IF category \in {"AI", "Dev", "ProjectMgmt"} THEN 15 ELSE 0
C2_K(competitors) == IF Len(competitors) \in 1..3 THEN 10 ELSE 0
C2_D(description) == IF Len(description) > 100 THEN 5 ELSE 0

\* C2: calculate_market_potential = min(100, 50 + V + C + K + D) with only the
\* highest satisfied vote tier applying (votes of exactly 400, 200, 100 fall in
\* the lower tier), C = 15 for a high-potential category, K = 10 for 1..3
\* competitors, D = 5 for a description longer than 100; scenario 3 gives 100,
\* scenario 4 gives 50; the score never decreases when only the votes increase.
C2_ScoreFormula ==
    Scored =>
        /\ ret = Min(100, 50 + C2_V(arg.votes) + C2_C(arg.category)
                          + C2_K(arg.competitors) + C2_D(arg.description))
        /\ (arg.votes = 450 /\ arg.category \in high_potential_categories
            /\ Len(arg.competitors) = 2 /\ Len(arg.description) = 150) => ret = 100
        /\ (arg.votes = 0 /\ arg.category = DefaultCategory
            /\ Len(arg.competitors) = 0 /\ Len(arg.description) = 10) => ret = 50
        /\ \A v \in VoteSamples :
              v >= arg.votes =>
                  calculate_market_potential([arg EXCEPT !.votes = v]) >= ret

\* Votes of exactly 400 take the 200-tier bonus, nothing else applies.
C2_Witness ==
    /\ Scored
    /\ arg.votes = 400
    /\ arg.category = DefaultCategory
    /\ Len(arg.competitors) = 0
    /\ Len(arg.description) = 10
    /\ ret = 65

(* ------------------------------------------------------------------------ *)
(* Classification: OptimizedProductHuntAnalyzer.classify_product              *)
(* ------------------------------------------------------------------------ *)

UpperChars == "ABCDEFGHIJKLMNOPQRSTUVWXYZ"
LowerChars == "abcdefghijklmnopqrstuvwxyz"

\* str.lower() on one character.
UpperToLower ==
    [c \in {SubSeq(UpperChars, i, i) : i \in 1..Len(UpperChars)} |->
        LET i == CHOOSE i \in 1..Len(UpperChars) : SubSeq(UpperChars, i, i) = c
        IN  SubSeq(LowerChars, i, i)]

LowerChar(c) == IF c \in DOMAIN UpperToLower THEN UpperToLower[c] ELSE c

RECURSIVE LowerFrom(_, _)
\* The characters of text from place i on, each in lower case.
LowerFrom(text, i) ==
    IF i > Len(text) THEN ""
    ELSE LowerChar(SubSeq(text, i, i)) \o LowerFrom(text, i + 1)

\* str.lower()
Lower(text) == LowerFrom(text, 1)

\* self.product_categories, a dict: iteration is in declaration order.
product_categories ==
    << [category |-> "AI",
        keywords |-> <<"ai", "ml", "artificial intelligence", "chatgpt", "claude">>],
       [category |-> "Productivity",
        keywords |-> <<"productivity", "workflow", "automation", "efficiency">>],
       [category |-> "Dev",
        keywords |-> <<"dev", "code", "programming", "developer", "git">>],
       [category |-> "Design",
        keywords |-> <<"design", "figma", "creative", "ui", "ux">>],
       [category |-> "ProjectMgmt",
        keywords |-> <<"project", "management", "agile", "scrum", "task">>],
       [category |-> "Marketing",
        keywords |-> <<"marketing", "seo", "social", "content">>],
       [category |-> "Education",
        keywords |-> <<"education", "learning", "training", "course">>],
       [category |-> "Health",
        keywords |-> <<"health", "fitness", "wellness", "lifestyle">>],
       [category |-> "Finance",
        keywords |-> <<"finance", "business", "payment", "banking">>],
       [category |-> "Entertainment",
        keywords |-> <<"entertainment", "game", "fun", "music", "video">>] >>

\* Some keyword of the i-th declared category occurs in the text.
CategoryHit(i, text) ==
    \E t \in {text} :
        \E k \in 1..Len(product_categories[i].keywords) :
            Contains(product_categories[i].keywords[k], t)

classify_product_nolower(text) ==
    LET hits == {i \in 1..Len(product_categories) : CategoryHit(i, text)}
    IN  IF hits = {} THEN DefaultCategory
        ELSE product_categories[CHOOSE i \in hits : \A j \in hits : i <= j].category

classify_product_lastmatch(text) ==
    LET text_lower == Lower(text)
        hits == {i \in 1..Len(product_categories) : CategoryHit(i, text_lower)}
    IN  IF hits = {} THEN DefaultCategory
        ELSE product_categories[CHOOSE i \in hits : \A j \in hits : i >= j].category

RECURSIVE FirstCategoryHit(_, _)
\* The outer loop from the i-th declared category on: return at the first
\* category one of whose keywords occurs in the text, else the default bucket.
FirstCategoryHit(i, text) ==
    IF i > Len(product_categories) THEN DefaultCategory
    ELSE IF CategoryHit(i, text) THEN product_categories[i].category
    ELSE FirstCategoryHit(i + 1, text)

\* text_lower = text.lower(), then the first category with a keyword in it.
classify_product(text) ==
    CHOOSE category \in {FirstCategoryHit(1, text_lower) : text_lower \in {Lower(text)}} :
        TRUE

(* Inputs of the classification specification: texts made of a few pieces. *)
MaxPieces == 3
MaxCalls == 2
TextPieces ==
    {"AI", "workflow", "Dev", "ui", "task", "pay", "ment", "fun", "training", " ", "x"}

RECURSIVE TextsOf(_)
TextsOf(n) ==
    IF n = 0 THEN {""}
    ELSE LET shorter == TextsOf(n - 1)
         IN  shorter \cup {t \o p : t \in shorter, p \in TextPieces}

InitClassify ==
    /\ fn = "init"
    /\ arg \in TextsOf(MaxPieces)
    /\ ret = << >>
    /\ NoRun

\* One more call of classify_product on the same text; ret lists the results
\* of the calls so far.
ClassifyProduct ==
    /\ Len(ret) < MaxCalls
    /\ fn' = "classify_product"
    /\ ret' = Append(ret, classify_product(arg))
    /\ UNCHANGED arg
    /\ UNCHANGED runVars

NextClassify == ClassifyProduct

SpecClassify == InitClassify /\ [][NextClassify]_vars

Classified == fn = "classify_product"

TaxonomyCategories == {product_categories[i].category : i \in 1..Len(product_categories)}

\* The keywords of the taxonomy, as the claims read them off the declaration.
AllKeywords ==
    {"ai", "ml", "artificial intelligence", "chatgpt", "claude",
     "productivity", "workflow", "automation", "efficiency",
     "dev", "code", "programming", "developer", "git",
     "design", "figma", "creative", "ui", "ux",
     "project", "management", "agile", "scrum", "task",
     "marketing", "seo", "social", "content",
     "education", "learning", "training", "course",
     "health", "fitness", "wellness", "lifestyle",
     "finance", "business", "payment", "banking",
     "entertainment", "game", "fun", "music", "video"}

\* C6: classify_product is deterministic and total: every call returns one of
\* the ten taxonomy categories or the default bucket, every call on the same
\* text returns the same category, and the result is the default bucket exactly
\* when the lowercased text contains no keyword of any category.
C6_ClassifyTotal ==
    Classified =>
        /\ \A c \in 1..Len(ret) :
              /\ ret[c] \in TaxonomyCategories \cup {DefaultCategory}
              /\ ret[c] = ret[1]
              /\ (ret[c] = DefaultCategory)
                    <=> (LET text_lower == Lower(arg)
                         IN  \A kw \in AllKeywords : ~Contains(kw, text_lower))
        /\ Cardinality(TaxonomyCategories) = 10
        /\ DefaultCategory \notin TaxonomyCategories

\* Two calls on a text whose only keyword has an upper-case letter in the text.
C6_Witness ==
    /\ Classified
    /\ Len(ret) = 2
    /\ arg = "x Dev"
    /\ ret[2] = "Dev"

\* C7: when the text contains keywords of two or more categories, the result
\* is the category declared earliest in the taxonomy, whatever the number or
\* position of the keyword hits.
C7_FirstDeclaredWins ==
    Classified =>
        LET text_lower == Lower(arg)
            hits == {i \in 1..Len(product_categories) : CategoryHit(i, text_lower)}
        IN  Cardinality(hits) >= 2 =>
                \A c \in 1..Len(ret) :
                    /\ \E i \in hits : ret[c] = CategoryNames[i]
                    /\ \A i \in hits, j \in 1..Len(CategoryNames) :
                          ret[c] = CategoryNames[j] => j <= i

\* A productivity keyword comes first in the text, twice, and an AI keyword
\* last: the result is the AI category.
C7_Witness ==
    /\ Classified
    /\ arg = "workflowworkflowAI"
    /\ ret[1] = "AI"

(* ------------------------------------------------------------------------ *)
(* Ranking: OptimizedProductHuntAnalyzer.rank_promising_products              *)
(* ------------------------------------------------------------------------ *)

TopN == 3

\* products[:n]
Take(products, n) == SubSeq(products, 1, Min(n, Len(products)))

\* One step of a stable descending sort: x goes behind every element already
\* placed whose score is at least its own.
InsertByScore(x, sorted) ==
    LET k == Cardinality({i \in 1..Len(sorted) :
                             sorted[i].market_potential >= x.market_potential})
    IN  SubSeq(sorted, 1, k) \o <<x>> \o SubSeq(sorted, k + 1, Len(sorted))

RECURSIVE SortByScoreDesc(_)
\* scored_products.sort(key=lambda x: x[1], reverse=True): list.sort is stable,
\* also with reverse=True (equal keys keep the order they had in the list).
SortByScoreDesc(products) ==
    IF Len(products) = 0 THEN << >>
    ELSE InsertByScore(products[Len(products)],
                       SortByScoreDesc(SubSeq(products, 1, Len(products) - 1)))

rank_promising_products_unsorted(products) == Take(products, TopN)

rank_promising_products(products) == Take(SortByScoreDesc(products), TopN)

(* Inputs of the ranking specification: enriched records in any order (the   *)
(* order in which the pool tasks completed), with distinct ranks.              *)
MaxProducts == 4
ScoreSamples == {60, 80, 90}

Perms(n) == {f \in [1..n -> 1..n] : \A i, j \in 1..n : f[i] = f[j] => i = j}

Scenario5 ==
    << [rank |-> 5, market_potential |-> 90], [rank |-> 2, market_potential |-> 80],
       [rank |-> 3, market_potential |-> 80], [rank |-> 1, market_potential |-> 70],
       [rank |-> 4, market_potential |-> 60] >>

RankInputs(maxLen) ==
    {Scenario5} \cup
    UNION {{[i \in 1..n |-> [rank |-> r[i], market_potential |-> sc[i]]] :
               r \in Perms(n), sc \in [1..n -> ScoreSamples]} : n \in 0..maxLen}

InitRank ==
    /\ fn = "init"
    /\ arg \in RankInputs(MaxProducts)
    /\ ret = NoResult
    /\ NoRun

RankPromisingProducts ==
    /\ fn = "init"
    /\ fn' = "rank_promising_products"
    /\ ret' = rank_promising_products(arg)
    /\ UNCHANGED arg
    /\ UNCHANGED runVars

NextRank == RankPromisingProducts

SpecRank == InitRank /\ [][NextRank]_vars

Ranked == fn = "rank_promising_products"

\* The place of the record of rank r in the list.
IndexOfRank(products, r) == CHOOSE i \in 1..Len(products) : products[i].rank = r

\* C3: for every list of enriched records, in whatever order the list is, two
\* records of the returned top 3 with equal market_potential appear with the
\* smaller original rank first.
C3_TiesBySmallerRank ==
    Ranked =>
        \A i, j \in 1..Len(ret) :
            (i < j /\ ret[i].market_potential = ret[j].market_potential)
                => ret[i].rank < ret[j].rank

\* C4: rank_promising_products returns exactly min(3, n) records, each an
\* input record and none repeated, in non-increasing score order, no omitted
\* record scoring strictly higher than a returned one, records of equal score
\* in their relative input order; scenario 5 gives [rank 5, rank 2, rank 3].
C4_TopThree ==
    Ranked =>
        /\ Len(ret) = Min(3, Len(arg))
        /\ \A i \in 1..Len(ret) : \E k \in 1..Len(arg) : ret[i] = arg[k]
        /\ \A i, j \in 1..Len(ret) : ret[i] = ret[j] => i = j
        /\ \A i, j \in 1..Len(ret) :
              i < j => ret[i].market_potential >= ret[j].market_potential
        /\ \A k \in 1..Len(arg) :
              (\A i \in 1..Len(ret) : ret[i] # arg[k])
                  => \A i \in 1..Len(ret) :
                        arg[k].market_potential <= ret[i].market_potential
        /\ \A i, j \in 1..Len(ret) :
              (i < j /\ ret[i].market_potential = ret[j].market_potential)
                  => IndexOfRank(arg, ret[i].rank) < IndexOfRank(arg, ret[j].rank)
        /\ arg = Scenario5 => [i \in 1..Len(ret) |-> ret[i].rank] = <<5, 2, 3>>

\* Scenario 5 has been ranked.
C4_Witness ==
    /\ Ranked
    /\ arg = Scenario5
    /\ Len(ret) = 3
    /\ ret[2].rank = 2
    /\ ret[3].rank = 3

(* ------------------------------------------------------------------------ *)
(* Record extraction from one candidate region                                *)
(*   optimized: extract_enhanced_product_info                                 *)
(*   enhanced, base: extract_product_basic_info                               *)
(*                                                                            *)
(* A region (a bs4 Tag) is described by what the extraction reads from it:    *)
(*   id      its place in the document (identity of the element)              *)
(*   tag     its tag name                                                     *)
(*   heading stripped text of the first element matching the analyzer's name  *)
(*           selectors, "" when none matches                                  *)
(*   lines   the non-empty stripped lines of its text                         *)
(*   para    stripped text of the first element matching the description      *)
(*           selectors, "" when none matches                                  *)
(*   votes   the number found by the vote patterns, 0 when none               *)
(*   img     the src of its first <img>, "" when none                         *)
(*   href    the href of its first <a>, "" when none                          *)
(*   fault   reading the region raises inside the extraction                  *)
(* A character of the source that is not ASCII is written "?".                *)
(* ------------------------------------------------------------------------ *)

Digits == {"0", "1", "2", "3", "4", "5", "6", "7", "8", "9"}

RECURSIVE LeadingDigits(_)
\* The number of leading digit characters of s (the greedy match of \d+).
LeadingDigits(s) ==
    IF Len(s) > 0 /\ SubSeq(s, 1, 1) \in Digits
    THEN 1 + LeadingDigits(SubSeq(s, 2, Len(s)))
    ELSE 0

RECURSIVE DropSpaces(_)
\* The rest of s after its leading white space (the match of \s*).
DropSpaces(s) ==
    IF Len(s) > 0 /\ SubSeq(s, 1, 1) = " "
    THEN DropSpaces(SubSeq(s, 2, Len(s)))
    ELSE s

\* re.sub(r'^\d+\.\s*', '', name)
StripOrdinal(name) ==
    LET sub(s) ==
            LET d == LeadingDigits(s)
            IN  IF d >= 1 /\ Len(s) > d /\ SubSeq(s, d + 1, d + 1) = "."
                THEN DropSpaces(SubSeq(s, d + 2, Len(s)))
                ELSE s
    IN  Once(name, sub)

\* re.sub(r'^#\d+\s*', '', name)
StripHash(name) ==
    LET sub(s) ==
            IF Len(s) >= 2 /\ SubSeq(s, 1, 1) = "#"
               /\ LeadingDigits(SubSeq(s, 2, Len(s))) >= 1
            THEN DropSpaces(SubSeq(s, 2 + LeadingDigits(SubSeq(s, 2, Len(s))), Len(s)))
            ELSE s
    IN  Once(name, sub)

MinNameLen == 2

\* Python's None.
None == [absent |-> TRUE]
IsNone(x) == "absent" \in DOMAIN x

DescriptionPlaceholder == "???????"

\* The name before cleaning: the heading, else the first non-empty text line.
RawName(element) ==
    IF element.heading # "" THEN element.heading
    ELSE IF Len(element.lines) > 0 THEN element.lines[1]
    ELSE ""

SiteRoot == "https://decohack.com"

\* url.startswith('http')
StartsWithHttp(url) == Len(url) >= 4 /\ SubSeq(url, 1, 4) = "http"

\* urljoin('https://decohack.com', url) for a path: relative to the site root.
urljoin(base, url) ==
    IF SubSeq(url, 1, 1) = "/" THEN base \o url ELSE base \o "/" \o url

\* if url and not url.startswith('http'): url = urljoin(site, url)
AbsoluteUrl(url) ==
    IF url # "" /\ ~StartsWithHttp(url) THEN urljoin(SiteRoot, url) ELSE url

TaglineMax == 50

\* description[:50] + "..." if len(description) > 50 else description
Tagline(name, description) ==
    IF name # "" /\ description # ""
    THEN (IF Len(description) > TaglineMax
          THEN SubSeq(description, 1, TaglineMax) \o "..." ELSE description)
    ELSE ""

\* optimized analyzer
extract_enhanced_product_info(element, rank) ==
    IF element.fault THEN None
    ELSE LET description == element.para
             record(name) ==
                 IF name = "" \/ Len(name) < MinNameLen THEN None
                 ELSE [rank |-> rank, name |-> name, description |-> description,
                       votes |-> element.votes,
                       category |-> classify_product(name \o " " \o description),
                       image_url |-> AbsoluteUrl(element.img),
                       website_url |-> AbsoluteUrl(element.href),
                       tagline |-> Tagline(name, description)]
         IN  Once(StripHash(StripOrdinal(RawName(element))), record)

\* enhanced analyzer
extract_product_basic_info_enhanced(element, rank) ==
    IF element.fault THEN None
    ELSE LET lines == element.lines
             record(name) ==
                 LET description ==
                         IF element.para # "" THEN element.para
                         ELSE IF name # "" /\ Len(lines) > 1
                              THEN (IF Len(lines[2]) > Len(lines[1]) THEN lines[2]
                                    ELSE lines[1])
                              ELSE ""
                 IN  IF name = "" \/ Len(name) < MinNameLen THEN None
                     ELSE [rank |-> rank, name |-> name,
                           description |-> IF description # "" THEN description
                                           ELSE DescriptionPlaceholder,
                           image_url |-> AbsoluteUrl(element.img),
                           website_url |-> AbsoluteUrl(element.href)]
         IN  Once(StripHash(StripOrdinal(RawName(element))), record)

\* base analyzer: the name comes from the heading only, only the ordinal marker
\* is removed, the link is kept as written and the record is returned whatever
\* its name.
extract_product_basic_info_base(element, rank) ==
    IF element.fault THEN None
    ELSE [rank |-> rank, name |-> StripOrdinal(element.heading),
          description |-> element.para,
          image_url |-> AbsoluteUrl(element.img),
          website_url |-> element.href]

(* ------------------------------------------------------------------------ *)
(* The candidate regions of a document: the strategies of fetch_daily_hot     *)
(*                                                                            *)
(* A parsed document is described by what the strategies read from it:        *)
(*   select   for each selector of the analyzer's list, soup.select(selector) *)
(*   links    optimized: the <a href> elements, each with href_ok (the href   *)
(*            holds 'producthunt.com' or 'ph/'), text_len (length of its      *)
(*            stripped text) and parent (find_parent(div, li, article))       *)
(*   marks    optimized: the text nodes holding the vote glyph, each given by *)
(*            its chain of ancestors, nearest first                           *)
(*   blocks   enhanced: soup.find_all(div, article, section)                  *)
(*   imgs     enhanced: the <img src> elements, each given by its             *)
(*            find_parent(div, article, section)                              *)
(*   classed  base: the div/article elements whose class matches the pattern  *)
(*   ordinals base: the text nodes starting with an ordinal, each given by    *)
(*            its chain of ancestors, nearest first                           *)
(* ------------------------------------------------------------------------ *)

Analyzers == {"optimized", "enhanced", "base"}

NumSelectorsOptimized == 11
NumSelectorsEnhanced == 7
NumSelectorsBase == 5
NumSelectors(analyzer) ==
    CASE analyzer = "optimized" -> NumSelectorsOptimized
      [] analyzer = "enhanced" -> NumSelectorsEnhanced
      [] analyzer = "base" -> NumSelectorsBase

AcceptThreshold == 10
CapOptimized == 30
CapEnhanced == 10
CapBase == 10
EnhancedBlockCap == 10
EnhancedImgCap == 10
LinkTextMin == 2
BlockTextMin == 20
ImgParentTextMin == 50
BaseTextMin == 200

ContainerTags == {"div", "li", "article", "section"}

\* Tag.__eq__ of bs4 compares name, attributes and contents, not identity:
\* two elements with the same markup are equal.
SameMarkup(a, b) == [a EXCEPT !.id = 0] = [b EXCEPT !.id = 0]
InList(x, list) == \E i \in 1..Len(list) : SameMarkup(x, list[i])

\* A variant that takes the last selector whose matches pass.
FirstSelectorHit_last(doc, atLeast) ==
    LET hits == {k \in 1..Len(doc.select) : Len(doc.select[k]) >= atLeast}
    IN  IF hits = {} THEN << >>
        ELSE doc.select[CHOOSE k \in hits : \A j \in hits : k >= j]

\* The elements of the first selector, in list order, whose matches pass.
FirstSelectorHit(doc, atLeast) ==
    LET hits == {k \in 1..Len(doc.select) : Len(doc.select[k]) >= atLeast}
    IN  IF hits = {} THEN << >>
        ELSE doc.select[CHOOSE k \in hits : \A j \in hits : k <= j]

\* optimized, strategy 2: the parents of the Product Hunt links.
LinkParents(doc) ==
    LET Keep(link) == link.href_ok /\ link.text_len > LinkTextMin /\ ~IsNone(link.parent)
        kept == SelectSeq(doc.links, Keep)
    IN  [i \in 1..Len(kept) |-> kept[i].parent]

\* The nearest ancestor of the chain with a container tag, None when none.
NearestContainer(chain) ==
    LET hits == {i \in 1..Len(chain) : chain[i].tag \in ContainerTags}
    IN  IF hits = {} THEN None ELSE chain[CHOOSE i \in hits : \A j \in hits : i <= j]

RECURSIVE MarkContainers(_, _)
\* optimized, strategy 3: the containers of the vote glyphs, each once.
MarkContainers(marks, found) ==
    IF Len(marks) = 0 THEN found
    ELSE LET parent == NearestContainer(marks[1])
         IN  MarkContainers(SubSeq(marks, 2, Len(marks)),
                            IF ~IsNone(parent) /\ ~InList(parent, found)
                            THEN Append(found, parent) ELSE found)

find_elements_optimized(doc) ==
    LET e1 == FirstSelectorHit(doc, AcceptThreshold)
        links == LinkParents(doc)
        e2 == IF Len(e1) = 0 \/ Len(e1) < AcceptThreshold
              THEN (IF Len(links) > 0 THEN links ELSE e1)
              ELSE e1
        e3 == IF Len(e2) = 0 \/ Len(e2) < AcceptThreshold
              THEN MarkContainers(doc.marks, << >>)
              ELSE e2
    IN  e3

find_elements_enhanced(doc) ==
    LET e1 == FirstSelectorHit(doc, 1)
        KeepBlock(b) == b.has_ordinal /\ b.text_len > BlockTextMin
        potential == SelectSeq(doc.blocks, KeepBlock)
        e2 == IF Len(e1) = 0 /\ Len(potential) > 0
              THEN Take(potential, EnhancedBlockCap) ELSE e1
        KeepParent(par) == ~IsNone(par) /\ par.text_len > ImgParentTextMin
        e3 == IF Len(e2) = 0
              THEN SelectSeq(Take(doc.imgs, EnhancedImgCap), KeepParent)
              ELSE e2
    IN  e3

\* The first ancestor of the chain whose stripped text has at least
\* BaseTextMin characters, None when the walk runs off the top.
FirstLongAncestor(chain) ==
    LET hits == {i \in 1..Len(chain) : chain[i].text_len >= BaseTextMin}
    IN  IF hits = {} THEN None ELSE chain[CHOOSE i \in hits : \A j \in hits : i <= j]

find_elements_base(doc) ==
    LET e1 == FirstSelectorHit(doc, 1)
        e2 == IF Len(e1) = 0 THEN doc.classed ELSE e1
        walked == [i \in 1..Len(doc.ordinals) |-> FirstLongAncestor(doc.ordinals[i])]
        Found(par) == ~IsNone(par)
        e3 == IF Len(e2) = 0 THEN SelectSeq(walked, Found) ELSE e2
    IN  e3

(* ------------------------------------------------------------------------ *)
(* fetch_daily_hot of the three analyzers                                     *)
(* ------------------------------------------------------------------------ *)

\* self.fallback_products of the optimized analyzer.
fallback_products_optimized ==
    << [rank |-> 1, name |-> "Claude 3.5 Sonnet",
        description |-> "Anthropic?????AI?????????????????",
        votes |-> 523, category |-> "AI",
        image_url |-> "https://cdn.producthunt.com/r/100x100/1010.jpg",
        website_url |-> "https://claude.ai",
        tagline |-> "???AI???????????"],
       [rank |-> 2, name |-> "Linear",
        description |-> "???????????????????",
        votes |-> 412, category |-> "ProjectMgmt",
        image_url |-> "https://cdn.producthunt.com/r/100x100/1001.jpg",
        website_url |-> "https://linear.app",
        tagline |-> "???????????"],
       [rank |-> 3, name |-> "Notion AI",
        description |-> "Notion???AI?????????????",
        votes |-> 389, category |-> "AI",
        image_url |-> "https://cdn.producthunt.com/r/100x100/1002.jpg",
        website_url |-> "https://notion.so",
        tagline |-> "??????????????"] >>

\* self.fallback_products of the enhanced analyzer.
fallback_products_enhanced ==
    << [rank |-> 1, name |-> "Claude 3.5 Sonnet",
        description |-> "Anthropic?????AI?????????????????",
        image_url |-> "https://cdn.producthunt.com/r/100x100/1010.jpg",
        website_url |-> "https://claude.ai"],
       [rank |-> 2, name |-> "Linear",
        description |-> "???????????????????",
        image_url |-> "https://cdn.producthunt.com/r/100x100/1001.jpg",
        website_url |-> "https://linear.app"],
       [rank |-> 3, name |-> "Notion AI",
        description |-> "Notion???AI?????????????",
        image_url |-> "https://cdn.producthunt.com/r/100x100/1002.jpg",
        website_url |-> "https://notion.so"] >>

fallback_products(analyzer) ==
    IF analyzer = "optimized" THEN fallback_products_optimized
    ELSE fallback_products_enhanced

find_elements(analyzer, doc) ==
    CASE analyzer = "optimized" -> find_elements_optimized(doc)
      [] analyzer = "enhanced" -> find_elements_enhanced(doc)
      [] analyzer = "base" -> find_elements_base(doc)

Cap(analyzer) ==
    CASE analyzer = "optimized" -> CapOptimized
      [] analyzer = "enhanced" -> CapEnhanced
      [] analyzer = "base" -> CapBase

Capped_nocap(analyzer, product_elements) == product_elements

\* product_elements[:30], product_elements[:10]
Capped(analyzer, product_elements) == Take(product_elements, Cap(analyzer))

extract_info(analyzer, element, rank) ==
    CASE analyzer = "optimized" -> extract_enhanced_product_info(element, rank)
      [] analyzer = "enhanced" -> extract_product_basic_info_enhanced(element, rank)
      [] analyzer = "base" -> extract_product_basic_info_base(element, rank)

\* A variant of the extraction loop that stops at the first region giving no
\* record.
extract_products_abort(analyzer, product_elements) ==
    LET capped == Capped(analyzer, product_elements)
        data == [i \in 1..Len(capped) |-> extract_info(analyzer, capped[i], i)]
        Bad(i) == IsNone(data[i]) \/ data[i].name = ""
        bad == {i \in 1..Len(capped) : Bad(i)}
        stop == IF bad = {} THEN Len(capped) + 1
                ELSE CHOOSE i \in bad : \A j \in bad : i <= j
    IN  SubSeq(data, 1, stop - 1)

\* The extraction loop: enumerate(..., 1) numbers the regions, a region whose
\* extraction gives None (or, but for the base analyzer, an empty name) adds
\* nothing.
extract_products(analyzer, product_elements) ==
    LET Kept(d) == IF analyzer = "base" THEN ~IsNone(d)
                   ELSE ~IsNone(d) /\ d.name # ""
        loop(capped) ==
            SelectSeq([i \in 1..Len(capped) |-> extract_info(analyzer, capped[i], i)],
                      Kept)
    IN  Once(Capped(analyzer, product_elements), loop)

Outcome(v) == [exc |-> FALSE, value |-> v]
Exception == [exc |-> TRUE]

\* The body of the try block: what it returns, or that it raised.
\* net is what the network does: "ok", "probe_fails" (test_connectivity is
\* False), "http_error" (a status other than 200), "fetch_raises" (the request
\* raises), "parse_raises" (building or searching the soup raises).
fetch_daily_hot_body(analyzer, net, doc) ==
    IF analyzer # "base" /\ net = "probe_fails"
    THEN Outcome(fallback_products(analyzer))
    ELSE IF net \in {"http_error", "fetch_raises"}
    THEN (IF analyzer = "enhanced"
          THEN Outcome(fallback_products(analyzer))   \* fetch_with_retry gave None
          ELSE Exception)                             \* get / raise_for_status raised
    ELSE IF net = "parse_raises" THEN Exception
    ELSE LET result(products) ==
                 IF analyzer # "base" /\ Len(products) = 0
                 THEN Outcome(fallback_products(analyzer))
                 ELSE Outcome(products)
         IN  Once(extract_products(analyzer, find_elements(analyzer, doc)), result)

Returned(v) == [raised |-> FALSE, value |-> v]
Raised == [raised |-> TRUE]

\* A variant that returns the extracted products also when there are none.
fetch_daily_hot_noemptycheck(analyzer, net, doc) ==
    IF net = "ok"
    THEN Returned(extract_products(analyzer, find_elements(analyzer, doc)))
    ELSE Returned(IF analyzer = "base" THEN << >> ELSE fallback_products(analyzer))

\* A variant whose except clause returns no data in every analyzer.
fetch_daily_hot_nofallback(analyzer, net, doc) ==
    LET handled(body) == IF body.exc THEN Returned(<< >>) ELSE Returned(body.value)
    IN  Once(fetch_daily_hot_body(analyzer, net, doc), handled)

\* try: body; except Exception: return the fallback data (base: []).
fetch_daily_hot(analyzer, net, doc) ==
    LET handled(body) ==
            IF body.exc
            THEN Returned(IF analyzer = "base" THEN << >> ELSE fallback_products(analyzer))
            ELSE Returned(body.value)
    IN  Once(fetch_daily_hot_body(analyzer, net, doc), handled)

(* Inputs of the fetch specification: documents built from a few kinds of     *)
(* region. Every region carries its own ordinal in its text, so that two      *)
(* regions of a document differ in their markup.                              *)
MaxShort == 2
MaxRegions == 31

RegionKinds == {"good", "lines", "shortname", "onechar", "faulty", "thin"}

Region(kind, i) ==
    LET n == ToString(i)
        r == [id |-> i, tag |-> "div", heading |-> "", lines |-> << >>, para |-> "",
              votes |-> 0, img |-> "", href |-> "", fault |-> FALSE, text_len |-> 250,
              has_ordinal |-> TRUE]
    IN  CASE kind = "good" ->
               [r EXCEPT !.heading = n \o ". Acme AI",
                         !.lines = <<n \o ". Acme AI", "An AI tool">>,
                         !.para = "An AI tool", !.votes = 450,
                         !.img = "/img/" \o n \o ".png",
                         !.href = "https://www.producthunt.com/posts/acme"]
          [] kind = "lines" ->
               [r EXCEPT !.lines = <<"#" \o n \o " Bolt", "Dev workflow kit">>,
                         !.href = "ph/bolt"]
          [] kind = "shortname" ->
               [r EXCEPT !.heading = n \o ".", !.lines = <<n \o ".", "task list">>,
                         !.para = "task list"]
          [] kind = "onechar" ->
               [r EXCEPT !.heading = "#" \o n \o " A", !.lines = <<"#" \o n \o " A">>]
          [] kind = "faulty" ->
               [r EXCEPT !.heading = n \o ". Broken", !.fault = TRUE]
          [] kind = "thin" ->
               [r EXCEPT !.heading = "Linear", !.lines = <<"Linear", n>>,
                         !.text_len = 30, !.has_ordinal = FALSE]

\* A wrapper that is no container, around a text node.
Wrapper(i) ==
    [id |-> i, tag |-> "span", heading |-> "", lines |-> << >>, para |-> "",
     votes |-> 0, img |-> "", href |-> "", fault |-> FALSE, text_len |-> 5,
     has_ordinal |-> FALSE]

RegionsOf(kinds, base) == [i \in 1..Len(kinds) |-> Region(kinds[i], base + i)]

\* The document of an analyzer with the regions sel under its k-th selector,
\* second reachable by its second strategy and third by its third one.
MakeDoc(analyzer, k, sel, second, third) ==
    LET none == << >>
        select == [j \in 1..NumSelectors(analyzer) |-> IF j = k THEN sel ELSE none]
        chain(list) == [i \in 1..Len(list) |-> <<Wrapper(300 + i), list[i]>>]
    IN  [select |-> select,
         links |-> IF analyzer = "optimized"
                   THEN [i \in 1..Len(second) |->
                            [href_ok |-> TRUE, text_len |-> 5, parent |-> second[i]]]
                   ELSE none,
         marks |-> IF analyzer = "optimized" THEN chain(third) ELSE none,
         blocks |-> IF analyzer = "enhanced" THEN second ELSE none,
         imgs |-> IF analyzer = "enhanced" THEN third ELSE none,
         classed |-> IF analyzer = "base" THEN second ELSE none,
         ordinals |-> IF analyzer = "base" THEN chain(third) ELSE none]

RECURSIVE KindLists(_)
\* Every list of at most n region kinds.
KindLists(n) ==
    IF n = 0 THEN {<< >>}
    ELSE LET shorter == KindLists(n - 1)
         IN  shorter \cup {Append(l, k) : l \in shorter, k \in RegionKinds}

\* Lists around the acceptance threshold and the caps: good regions, but for
\* at most one region whose name is emptied by the cleaning.
LongLens ==
    {AcceptThreshold - 1, AcceptThreshold, AcceptThreshold + 1, CapOptimized, MaxRegions}
LongLists ==
    UNION {{[i \in 1..n |-> IF i = bad THEN "shortname" ELSE "good"] : bad \in 0..n}
              : n \in LongLens}

FewLists == {<< >>, <<"good">>}

Docs(analyzer, lists) ==
    LET R(l, base) == RegionsOf(l, base)
    IN  {MakeDoc(analyzer, k, R(l, 0), R(a, 100), R(b, 200)) :
            k \in {1, NumSelectors(analyzer)}, l \in lists, a \in FewLists, b \in FewLists}
        \cup {MakeDoc(analyzer, 1, R(a, 0), R(l, 100), R(b, 200)) :
                 l \in lists, a \in FewLists, b \in FewLists}
        \cup {MakeDoc(analyzer, 1, R(a, 0), R(b, 100), R(l, 200)) :
                 l \in lists, a \in FewLists, b \in FewLists}

NetFailures == {"probe_fails", "http_error", "fetch_raises", "parse_raises"}

FetchInputs(analyzers) ==
    UNION {{[analyzer |-> a, net |-> "ok", doc |-> d] :
               d \in Docs(a, KindLists(MaxShort) \cup LongLists)} : a \in analyzers}
    \cup UNION {{[analyzer |-> a, net |-> f, doc |-> d] :
                    f \in NetFailures \ (IF a = "base" THEN {"probe_fails"} ELSE {}),
                    d \in Docs(a, KindLists(1))} : a \in analyzers}

InitFetch ==
    /\ fn = "init"
    /\ arg \in FetchInputs(Analyzers)
    /\ ret = NoResult
    /\ NoRun

FetchDailyHot ==
    /\ fn = "init"
    /\ fn' = "fetch_daily_hot"
    /\ ret' = fetch_daily_hot(arg.analyzer, arg.net, arg.doc)
    /\ UNCHANGED arg
    /\ UNCHANGED runVars

NextFetch == FetchDailyHot

SpecFetch == InitFetch /\ [][NextFetch]_vars

Fetched == fn = "fetch_daily_hot"

\* The regions the extraction loop of the call goes through.
C8_Tried == Capped(arg.analyzer, find_elements(arg.analyzer, arg.doc))

\* C8: whenever the connectivity probe fails, the page fetch fails or raises,
\* no strategy finds a region, or no region yields a valid record,
\* fetch_daily_hot of the enhanced and optimized analyzers returns the fallback
\* dataset, which is exactly 3 records with ranks 1, 2, 3, each with rank, name
\* and description; fetch_daily_hot never returns an empty list.
C8_FallbackOnFailure ==
    (Fetched /\ arg.analyzer \in {"optimized", "enhanced"}) =>
        LET fallback == IF arg.analyzer = "optimized" THEN fallback_products_optimized
                        ELSE fallback_products_enhanced
        IN  /\ ~ret.raised
            /\ Len(ret.value) > 0
            /\ (\/ arg.net # "ok"
                \/ Len(find_elements(arg.analyzer, arg.doc)) = 0
                \/ \A i \in 1..Len(C8_Tried) :
                      IsNone(extract_info(arg.analyzer, C8_Tried[i], i)))
                  => ret.value = fallback
            /\ Len(fallback) = 3
            /\ \A i \in 1..3 :
                  /\ fallback[i].rank = i
                  /\ {"rank", "name", "description"} \subseteq DOMAIN fallback[i]

\* The page was fetched and two regions were found, neither of which yields a
\* name of two characters: the optimized analyzer returns the fallback data.
C8_Witness ==
    /\ Fetched
    /\ arg.analyzer = "optimized"
    /\ arg.net = "ok"
    /\ Len(C8_Tried) = 2
    /\ ret.value = fallback_products_optimized

\* C9: for every document, the number of regions turned into records, and so
\* the number of records returned, is at most K (30 optimized, 10 enhanced and
\* base), and fetch_daily_hot never raises to its caller.
C9_AtMostK ==
    Fetched =>
        LET K == IF arg.analyzer = "optimized" THEN 30 ELSE 10
        IN  /\ ~ret.raised
            /\ Len(ret.value) <= K
            /\ arg.net = "ok" =>
                  Len(Capped(arg.analyzer, find_elements(arg.analyzer, arg.doc))) <= K

\* 31 regions were found and 30 records are returned.
C9_Witness ==
    /\ Fetched
    /\ arg.analyzer = "optimized"
    /\ arg.net = "ok"
    /\ Len(find_elements(arg.analyzer, arg.doc)) = 31
    /\ Len(ret.value) = 30

\* C10: in every batch returned by fetch_daily_hot the ranks are unique, start
\* at 1 and are contiguous (1..n for n records) in source order, also when
\* some candidate regions among the first K are rejected.
C10_RanksContiguous ==
    (Fetched /\ arg.analyzer = "optimized") =>
        \A i \in 1..Len(ret.value) : ret.value[i].rank = i

\* C11: record extraction returns absent whenever the name left after marker
\* stripping has fewer than 2 characters, so no record of a batch returned by
\* fetch_daily_hot of any analyzer has an empty or one-character name.
C11_NoShortName ==
    Fetched => \A i \in 1..Len(ret.value) : Len(ret.value[i].name) >= MinNameLen

\* The records the regions the loop goes through yield, each under its place.
C12_Data == [i \in 1..Len(C8_Tried) |-> extract_info(arg.analyzer, C8_Tried[i], i)]

\* C12: if the extraction of one candidate region returns absent or faults
\* internally, fetch_daily_hot still returns the record of every other region
\* among the first K that yields a valid name, in source order: a bad region
\* neither aborts the batch nor makes the fallback dataset replace it.
C12_BadRegionIsolated ==
    (Fetched /\ arg.analyzer \in {"optimized", "enhanced"} /\ arg.net = "ok") =>
        LET data == C12_Data
            valid == {i \in 1..Len(data) :
                         ~IsNone(data[i]) /\ Len(data[i].name) >= MinNameLen}
            value == ret.value
        IN  valid # {} =>
              /\ ~ret.raised
              /\ Len(value) = Cardinality(valid)
              /\ \A j \in 1..Len(value) :
                    value[j].rank \in valid /\ value[j] = data[value[j].rank]
              /\ \A j \in 1..(Len(value) - 1) : value[j].rank < value[j + 1].rank

\* A faulting region followed by a valid one: the batch is the record of the
\* second region.
C12_Witness ==
    /\ Fetched
    /\ arg.analyzer = "optimized"
    /\ arg.net = "ok"
    /\ Len(C8_Tried) = 2
    /\ C8_Tried[1].fault
    /\ Len(ret.value) = 1
    /\ ret.value[1].name = "Bolt"

(* ------------------------------------------------------------------------ *)
(* Enrichment: OptimizedProductHuntAnalyzer.enhance_product_info              *)
(* ------------------------------------------------------------------------ *)

\* any(keyword in text for keyword in keywords)
AnyIn(keywords, text) == \E t \in {text} : \E kw \in keywords : Contains(kw, t)

\* The texts the analysis functions return are written as short labels; a
\* label is empty only where the text of the source is.

analyze_core_feature(product_info) ==
    LET text == Lower(product_info.name) \o Lower(product_info.description)
    IN  IF AnyIn({"ai", "ml", "artificial intelligence"}, text) THEN "feature: AI"
        ELSE IF AnyIn({"collaboration", "team", "sharing"}, text) THEN "feature: team"
        ELSE IF AnyIn({"automation", "workflow"}, text) THEN "feature: automation"
        ELSE IF AnyIn({"design", "creative"}, text) THEN "feature: design"
        ELSE "feature: efficiency"

analyze_pain_point(product_info) ==
    LET text == Lower(product_info.name) \o Lower(product_info.description)
    IN  IF Contains("ai", text) THEN "pain: manual work"
        ELSE IF AnyIn({"design", "figma"}, text) THEN "pain: design teamwork"
        ELSE IF AnyIn({"dev", "code", "git"}, text) THEN "pain: code management"
        ELSE "pain: needs of " \o product_info.category

analyze_target_audience(product_info) ==
    CASE product_info.category = "AI" -> "audience: AI engineers"
      [] product_info.category = "Productivity" -> "audience: office workers"
      [] product_info.category = "Dev" -> "audience: developers"
      [] product_info.category = "Design" -> "audience: designers"
      [] product_info.category = "ProjectMgmt" -> "audience: project managers"
      [] product_info.category = "Marketing" -> "audience: marketers"
      [] OTHER -> "audience: early adopters"

\* competitor_map.get(category, default)
identify_competitors(product_info) ==
    CASE product_info.category = "AI" -> <<"ChatGPT", "Claude", "GPT-4", "Bard">>
      [] product_info.category = "Dev" -> <<"GitHub", "GitLab", "Bitbucket", "SourceTree">>
      [] product_info.category = "Design" -> <<"Figma", "Sketch", "Adobe XD", "Canva">>
      [] product_info.category = "ProjectMgmt" -> <<"Notion", "Trello", "Asana", "Monday.com">>
      [] product_info.category = "Productivity" ->
             <<"Slack", "Microsoft Teams", "Discord", "Zoom">>
      [] OTHER -> <<"A", "B", "C">>

\* 'AI' in category: of the taxonomy only the AI category holds these letters.
HasAI(category) == Contains("AI", category)

analyze_business_model(product_info) ==
    IF HasAI(product_info.category) THEN "model: subscription"
    ELSE IF product_info.category \in {"Dev", "ProjectMgmt"} THEN "model: freemium"
    ELSE "model: mixed"

PricingTier1 == 400
PricingTier2 == 200

analyze_pricing_model(product_info) ==
    IF product_info.votes > PricingTier1 THEN "pricing: tiered"
    ELSE IF product_info.votes > PricingTier2 THEN "pricing: standard"
    ELSE "pricing: value"

StrengthVotes == 300

\* "?".join(strengths)
analyze_strengths(product_info) ==
    LET s1 == IF HasAI(product_info.category) THEN <<"technology">> ELSE << >>
        s2 == IF product_info.votes > StrengthVotes THEN <<"recognition">> ELSE << >>
        s3 == IF Len(product_info.competitors) > 0 THEN <<"differentiation">> ELSE << >>
        strengths == s1 \o s2 \o s3
    IN  IF Len(strengths) = 0 THEN <<"positioning", "experience">> ELSE strengths

analyze_weaknesses(product_info) ==
    LET base_weakness == "weakness: young product"
        category_specific ==
            CASE product_info.category = "AI" -> "weakness: compute"
              [] product_info.category = "Dev" -> "weakness: learning curve"
              [] product_info.category = "Design" -> "weakness: complexity"
              [] OTHER -> ""
    IN  IF category_specific # "" THEN category_specific \o ". " \o base_weakness
        ELSE base_weakness

Stars5 == 90
Stars4 == 80
Stars3 == 70
Stars2 == 60

\* A variant whose thresholds are exclusive.
generate_expert_rating_strict(score) ==
    IF score > Stars5 THEN "*****"
    ELSE IF score > Stars4 THEN "****"
    ELSE IF score > Stars3 THEN "***"
    ELSE IF score > Stars2 THEN "**"
    ELSE "*"

\* One "*" for every star of the rating.
generate_expert_rating(score) ==
    IF score >= Stars5 THEN "*****"
    ELSE IF score >= Stars4 THEN "****"
    ELSE IF score >= Stars3 THEN "***"
    ELSE IF score >= Stars2 THEN "**"
    ELSE "*"

\* product_info.<field> = F(product_info), product_info being evaluated once.
Assign(product_info, field, F(_)) ==
    CHOOSE r \in {[p EXCEPT ![field] = F(p)] : p \in {product_info}} : TRUE

\* The optional base fields as the dataclass initialises them.
BaseDefaults ==
    [votes |-> 0, category |-> "", image_url |-> "", website_url |-> "",
     producthunt_url |-> "", tagline |-> ""]

\* The derived fields as the dataclass initialises them.
DerivedDefaults ==
    [core_feature |-> "", pain_point |-> "", target_audience |-> "",
     competitors |-> << >>, business_model |-> "", pricing |-> "",
     strengths |-> << >>, weaknesses |-> "", market_potential |-> 0,
     expert_rating |-> ""]

\* The union of two records with disjoint fields.
Merge(r1, r2) ==
    [f \in DOMAIN r1 \cup DOMAIN r2 |-> IF f \in DOMAIN r1 THEN r1[f] ELSE r2[f]]

\* ProductInfo(**product_data): the fields of the record, dataclass defaults
\* for the others.
ProductInfo(product_data) ==
    Merge(product_data, Merge(BaseDefaults, DerivedDefaults))

\* product_data.get(key, default)
Get(product_data, key, default) ==
    IF key \in DOMAIN product_data THEN product_data[key] ELSE default

\* The try block of enhance_product_info.
enhance_product_info(product_data) ==
    LET p0 == Merge([rank |-> product_data.rank, name |-> product_data.name,
                     description |-> product_data.description,
                     votes |-> Get(product_data, "votes", 0),
                     category |-> Get(product_data, "category", DefaultCategory),
                     image_url |-> product_data.image_url,
                     website_url |-> product_data.website_url,
                     producthunt_url |-> "",
                     tagline |-> Get(product_data, "tagline", "")], DerivedDefaults)
        p1 == Assign(p0, "core_feature", analyze_core_feature)
        p2 == Assign(p1, "pain_point", analyze_pain_point)
        p3 == Assign(p2, "target_audience", analyze_target_audience)
        p4 == Assign(p3, "competitors", identify_competitors)
        p5 == Assign(p4, "business_model", analyze_business_model)
        p6 == Assign(p5, "pricing", analyze_pricing_model)
        p7 == Assign(p6, "strengths", analyze_strengths)
        p8 == Assign(p7, "weaknesses", analyze_weaknesses)
        p9 == Assign(p8, "market_potential", calculate_market_potential)
        rating(product_info) == generate_expert_rating(product_info.market_potential)
    IN  Assign(p9, "expert_rating", rating)

\* The except clause of enhance_product_info.
enhance_product_info_except(product_data) == ProductInfo(product_data)

(* ------------------------------------------------------------------------ *)
(* Enrichment: EnhancedProductHuntAnalyzer.enhance_product_info               *)
(* ------------------------------------------------------------------------ *)

analyze_pain_point_enhanced(product_info) ==
    LET text == Lower(product_info.name) \o Lower(product_info.description)
    IN  IF AnyIn({"ai", "artificial intelligence", "ml", "machine learning", "gpt",
                  "claude"}, text) THEN "pain: manual work"
        ELSE IF AnyIn({"design", "figma", "sketch", "adobe", "photoshop"}, text)
             THEN "pain: design teamwork"
        ELSE IF AnyIn({"dev", "code", "git", "github", "developer", "programming"}, text)
             THEN "pain: deployment"
        ELSE IF AnyIn({"project", "task", "management", "agile", "scrum"}, text)
             THEN "pain: scattered projects"
        ELSE IF AnyIn({"marketing", "seo", "social", "content", "campaign"}, text)
             THEN "pain: marketing results"
        ELSE "pain: needs of users of " \o product_info.name

analyze_target_audience_enhanced(product_info) ==
    LET text == Lower(product_info.name) \o Lower(product_info.description)
    IN  IF AnyIn({"dev", "code", "git", "github", "developer"}, text)
        THEN "audience: developers"
        ELSE IF AnyIn({"design", "figma", "ui", "ux"}, text) THEN "audience: designers"
        ELSE IF AnyIn({"startup", "entrepreneur", "founder", "business"}, text)
             THEN "audience: founders"
        ELSE IF AnyIn({"marketing", "seo", "social media"}, text)
             THEN "audience: marketers"
        ELSE "audience: early adopters"

\* competitors_map, a dict: iteration is in declaration order.
competitors_map_enhanced ==
    << [category |-> "ai",
        competitors |-> <<"ChatGPT", "Claude", "Midjourney", "Stable Diffusion">>],
       [category |-> "design", competitors |-> <<"Figma", "Sketch", "Adobe XD", "Canva">>],
       [category |-> "code",
        competitors |-> <<"GitHub", "GitLab", "Bitbucket", "SourceForge">>],
       [category |-> "project", competitors |-> <<"Notion", "Trello", "Asana", "Monday.com">>],
       [category |-> "chat", competitors |-> <<"Slack", "Discord", "Teams", "Zoom">>],
       [category |-> "marketing",
        competitors |-> <<"HubSpot", "Mailchimp", "Buffer", "Hootsuite">>] >>

CompetitorsShown == 3

identify_competitors_enhanced(product_info) ==
    LET name == Lower(product_info.name)
        hits == {i \in 1..Len(competitors_map_enhanced) :
                    Contains(competitors_map_enhanced[i].category, name)}
    IN  IF hits = {} THEN <<"A", "B", "C">>
        ELSE Take(competitors_map_enhanced[CHOOSE i \in hits : \A k \in hits : i <= k]
                      .competitors, CompetitorsShown)

analyze_weaknesses_enhanced(product_info) ==
    LET name == Lower(product_info.name)
    IN  IF AnyIn({"ai", "ml"}, name) THEN "weakness: accuracy"
        ELSE IF Contains("design", name) THEN "weakness: learning curve"
        ELSE IF AnyIn({"dev", "code"}, name) THEN "weakness: configuration"
        ELSE "weakness: young product"

generate_expert_opinion_enhanced(product_info) ==
    LET name == Lower(product_info.name)
        kind == IF AnyIn({"ai", "claude", "gpt", "machine learning"}, name) THEN "AI"
                ELSE IF AnyIn({"design", "figma"}, name) THEN "design"
                ELSE IF AnyIn({"code", "dev", "git"}, name) THEN "development"
                ELSE "technology"
    IN  "opinion: " \o product_info.name \o ", a " \o kind \o " product for "
            \o product_info.target_audience

\* The derived fields of the enhanced and the base analyzer, as the dataclass
\* initialises them.
DerivedDefaultsBasic ==
    [pain_point |-> "", target_audience |-> "", competitors |-> << >>,
     weaknesses |-> "", expert_opinion |-> ""]

\* ProductInfo(**product_data) of the enhanced and the base analyzer.
ProductInfoBasic(product_data) ==
    Merge(product_data,
          Merge([image_url |-> "", website_url |-> "", producthunt_url |-> ""],
                DerivedDefaultsBasic))

\* The base fields picked one by one: ProductInfo(rank=product_data['rank'], ...)
PickBasic(product_data) ==
    Merge([rank |-> product_data.rank, name |-> product_data.name,
           description |-> product_data.description,
           image_url |-> product_data.image_url,
           website_url |-> product_data.website_url,
           producthunt_url |-> ""], DerivedDefaultsBasic)

\* The try block of enhance_product_info of the enhanced analyzer.
enhance_product_info_enhanced(product_data) ==
    LET p0 == PickBasic(product_data)
        p1 == Assign(p0, "pain_point", analyze_pain_point_enhanced)
        p2 == Assign(p1, "target_audience", analyze_target_audience_enhanced)
        p3 == Assign(p2, "competitors", identify_competitors_enhanced)
        p4 == Assign(p3, "weaknesses", analyze_weaknesses_enhanced)
    IN  Assign(p4, "expert_opinion", generate_expert_opinion_enhanced)

(* ------------------------------------------------------------------------ *)
(* Enrichment: ProductHuntAnalyzer.enhance_product_info                       *)
(* ------------------------------------------------------------------------ *)

\* The 'content' of every simulated search result, lower case.
search_product_details(product_name) ==
    LET name == Lower(product_name)
        ph == <<"discover " \o name \o " on product hunt">>
    IN  IF name # "product hunt" THEN ph \o <<"official website of " \o name>> ELSE ph

extract_pain_point(search_results) ==
    LET Hit(content) == AnyIn({"problem", "pain", "challenge"}, content)
        pain_points == SelectSeq(search_results, Hit)
    IN  IF Len(pain_points) > 0 THEN "pain: " \o pain_points[1]
        ELSE "pain: efficiency"

extract_target_audience(search_results) ==
    LET keywords == {"developer", "designer", "startup", "business", "professional",
                     "team"}
        Hit(content) == AnyIn(keywords, content)
    IN  IF Len(SelectSeq(search_results, Hit)) > 0 THEN "audience: professionals"
        ELSE "audience: early adopters"

\* common_competitors[:3]
identify_competitors_base(search_results) ==
    Take(<<"Notion", "Figma", "Slack", "Discord", "Linear", "Vercel">>, CompetitorsShown)

analyze_weaknesses_base(search_results) == "weakness: young product"

generate_expert_opinion_base(product_info, search_results) ==
    LET kind ==
            IF Contains("AI", product_info.name)
               \/ Contains("artificial intelligence", Lower(product_info.description))
            THEN "AI"
            ELSE IF Contains("design", Lower(product_info.name))
                    \/ Contains("design", Lower(product_info.description))
            THEN "design"
            ELSE IF AnyIn({"dev", "code"}, Lower(product_info.name)) THEN "development"
            ELSE "technology"
    IN  "opinion: " \o product_info.name \o ", a " \o kind \o " product for "
            \o product_info.target_audience

\* The try block of enhance_product_info of the base analyzer.
enhance_product_info_base(product_data) ==
    LET p0 == PickBasic(product_data)
        search_results == search_product_details(product_data.name)
        pain(product_info) == extract_pain_point(search_results)
        audience(product_info) == extract_target_audience(search_results)
        competitors(product_info) == identify_competitors_base(search_results)
        weaknesses(product_info) == analyze_weaknesses_base(search_results)
        opinion(product_info) == generate_expert_opinion_base(product_info, search_results)
    IN  IF Len(search_results) > 0
        THEN LET p1 == Assign(p0, "pain_point", pain)
                 p2 == Assign(p1, "target_audience", audience)
                 p3 == Assign(p2, "competitors", competitors)
                 p4 == Assign(p3, "weaknesses", weaknesses)
             IN  Assign(p4, "expert_opinion", opinion)
        ELSE p0

\* A variant of the try block that numbers the enriched record anew.
enhance_renumbered(analyzer, product_data) ==
    LET product_info == CASE analyzer = "optimized" -> enhance_product_info(product_data)
                          [] analyzer = "enhanced" -> enhance_product_info_enhanced(product_data)
                          [] analyzer = "base" -> enhance_product_info_base(product_data)
    IN  [product_info EXCEPT !.rank = 1]

\* What the task of a record returns when its try block does not raise.
enhance(analyzer, product_data) ==
    CASE analyzer = "optimized" -> enhance_product_info(product_data)
      [] analyzer = "enhanced" -> enhance_product_info_enhanced(product_data)
      [] analyzer = "base" -> enhance_product_info_base(product_data)

\* What it returns when the try block raises: except ...: return
\* ProductInfo(**product_data).
enhance_except(analyzer, product_data) ==
    IF analyzer = "optimized" THEN enhance_product_info_except(product_data)
    ELSE ProductInfoBasic(product_data)

\* The keys the try block reads with product_data[...], and the fields the
\* dataclass has no default for.
SubscriptedKeys == {"rank", "name", "description", "image_url", "website_url"}
ConstructorKeys == {"rank", "name", "description"}

\* enhance_product_info as a call: a missing key raises KeyError in the try
\* block; the except clause builds the bare record, which raises TypeError
\* to the caller when a field without default is missing.
enhance_product_info_call(analyzer, product_data) ==
    IF SubscriptedKeys \subseteq DOMAIN product_data
    THEN Returned(enhance(analyzer, product_data))
    ELSE IF ConstructorKeys \subseteq DOMAIN product_data
    THEN Returned(enhance_except(analyzer, product_data))
    ELSE Raised

(* Inputs of the enrichment specification: the records the extraction gives   *)
(* for a region of every kind, the fallback records, the record of            *)
(* test_enhanced_product_info, each also as a dict that lacks a key.          *)
MaxEnhanceRank == 2
EnhanceVotes == {0, 101, 201, 401}

TestProduct ==
    [rank |-> 1, name |-> "Test AI Tool", description |-> "AI-powered productivity tool",
     image_url |-> "https://example.com/image.jpg", website_url |-> "https://example.com"]

Range(seq) == {seq[i] : i \in 1..Len(seq)}

EnhanceRecords(analyzer) ==
    LET extracted == {extract_info(analyzer, Region(k, i), i) :
                         k \in RegionKinds, i \in 1..MaxEnhanceRank}
        kept == {d \in extracted : ~IsNone(d) /\ (analyzer = "base" \/ d.name # "")}
    IN  CASE analyzer = "optimized" ->
               {[d EXCEPT !.votes = v] :
                   d \in kept \cup Range(fallback_products_optimized), v \in EnhanceVotes}
               \cup Range(fallback_products_optimized)
          [] analyzer = "enhanced" ->
               kept \cup Range(fallback_products_enhanced) \cup {TestProduct}
          [] analyzer = "base" -> kept \cup {TestProduct}

Without(product_data, keys) == [f \in DOMAIN product_data \ keys |-> product_data[f]]

EnhanceInputs(analyzers) ==
    UNION {{[analyzer |-> a, product_data |-> Without(d, keys)] :
               d \in EnhanceRecords(a),
               keys \in {{}, {"image_url"}, {"website_url"}, {"name"}}} : a \in analyzers}

InitEnhance ==
    /\ fn = "init"
    /\ arg \in EnhanceInputs(Analyzers)
    /\ ret = NoResult
    /\ NoRun

EnhanceProductInfo ==
    /\ fn = "init"
    /\ fn' = "enhance_product_info"
    /\ ret' = enhance_product_info_call(arg.analyzer, arg.product_data)
    /\ UNCHANGED arg
    /\ UNCHANGED runVars

NextEnhance == EnhanceProductInfo

SpecEnhance == InitEnhance /\ [][NextEnhance]_vars

Enhanced == fn = "enhance_product_info"

\* The base fields of a record.
BaseFields == {"rank", "name", "description", "votes", "image_url", "website_url"}

\* C16: enrichment never changes a record's base fields: the enriched record
\* returned by enhance_product_info has the same rank, name, description, vote
\* count, image URL and site URL as the basic record it was built from, on the
\* normal path and on the internal-fault path alike.
C16_BaseFieldsKept ==
    (Enhanced /\ ~ret.raised) =>
        \A f \in BaseFields \cap DOMAIN arg.product_data :
            f \in DOMAIN ret.value /\ ret.value[f] = arg.product_data[f]

\* The second record of the optimized analyzer's fallback data was enriched
\* on the normal path, and a record without image_url on the fault path.
C16_Witness ==
    /\ Enhanced
    /\ ~ret.raised
    /\ \/ /\ arg.product_data = fallback_products_optimized[2]
          /\ ret.value.rank = 2
          /\ ret.value.pain_point # ""
       \/ /\ arg.analyzer = "enhanced"
          /\ "image_url" \notin DOMAIN arg.product_data
          /\ arg.product_data.rank = 2
          /\ ret.value.rank = 2
          /\ ret.value.pain_point = ""

MaxWorkers == 3
MaxWorkersBase == 5

\* A variant in which every analyzer builds the pool of the base analyzer.
max_workers_base(analyzer) == MaxWorkersBase

\* ThreadPoolExecutor(max_workers=...)
max_workers(analyzer) == IF analyzer = "base" THEN MaxWorkersBase ELSE MaxWorkers

MaxRunRegions == 3
MaxFaults == 1

RunKinds == {"good", "lines", "shortname"}

RECURSIVE RunKindLists(_)
RunKindLists(n) ==
    IF n = 0 THEN {<< >>}
    ELSE LET shorter == RunKindLists(n - 1)
         IN  shorter \cup {Append(l, k) : l \in shorter, k \in RunKinds}

\* What writing the report file does: "ok", or "fails" (makedirs or open raises).
DiskOutcomes == {"ok", "fails"}

\* The runs of the optimized analyzer: the network fails (the fallback data are
\* analysed) or a page is fetched whose vote glyphs lie in a few regions.
RunInputs(maxLen) ==
    {[analyzer |-> "optimized", net |-> n, disk |-> d,
      doc |-> MakeDoc("optimized", 1, << >>, << >>, << >>)] :
        n \in {"probe_fails", "parse_raises"}, d \in DiskOutcomes}
    \cup {[analyzer |-> "optimized", net |-> "ok", disk |-> d,
           doc |-> MakeDoc("optimized", 1, << >>, << >>, RegionsOf(l, 0))] :
             l \in RunKindLists(maxLen), d \in DiskOutcomes}

Init ==
    /\ fn = "run_analysis"
    /\ arg \in RunInputs(MaxRunRegions)
    /\ ret = NoResult
    /\ pc = "fetch"
    /\ raw_products = << >>
    /\ futures = << >>
    /\ enhanced_products = << >>
    /\ promising_products = << >>
    /\ report = << >>
    /\ files = {}

\* The two failure strings of run_analysis and the report path; the date of
\* the file name is written DATE.
Failure == "analysis failed: no Product Hunt data"
FailureOf(e) == "analysis failed: " \o e
ReportPath == "reports/enhanced_product_hunt_analysis_DATE.md"

\* The text generate_enhanced_markdown_report returns from its except clause.
ReportFailureText == "report generation failed"

\* raw_products = self.fetch_daily_hot(date); if not raw_products: return failure
Fetch ==
    /\ pc = "fetch"
    /\ \E r \in {fetch_daily_hot(arg.analyzer, arg.net, arg.doc)} :
           IF r.raised \/ Len(r.value) = 0
           THEN /\ ret' = Failure
                /\ pc' = "done"
                /\ UNCHANGED raw_products
           ELSE /\ raw_products' = r.value
                /\ pc' = "submit"
                /\ UNCHANGED ret
    /\ UNCHANGED <<fn, arg, futures, enhanced_products, promising_products, report, files>>

\* The dict comprehension: executor.submit for every raw product, in order.
Submit ==
    /\ pc = "submit"
    /\ futures' = [i \in 1..Len(raw_products) |-> [state |-> "pending", outcome |-> "none"]]
    /\ pc' = "collect"
    /\ UNCHANGED <<fn, arg, ret, raw_products, enhanced_products, promising_products,
                   report, files>>

Running == {i \in 1..Len(futures) : futures[i].state = "running"}
Hung == {i \in 1..Len(futures) : futures[i].state = "hung"}
Pending == {i \in 1..Len(futures) : futures[i].state = "pending"}
Finished == {i \in 1..Len(futures) : futures[i].state = "finished"}
Faults ==
    {i \in 1..Len(futures) :
        futures[i].outcome \in {"internal_fault", "raised"} \/ futures[i].state = "hung"}

\* The tasks that occupy a worker thread.
Busy == Running \cup Hung

\* A free worker takes the task at the head of the executor's queue.
StartTask ==
    /\ pc = "collect"
    /\ Pending # {}
    /\ Cardinality(Busy) < max_workers(arg.analyzer)
    /\ LET i == CHOOSE i \in Pending : \A j \in Pending : i <= j
       IN  futures' = [futures EXCEPT ![i].state = "running"]
    /\ UNCHANGED <<fn, arg, ret, pc, raw_products, enhanced_products,
                   promising_products, report, files>>

\* A running task ends: enhance_product_info returns, or it faults.
FinishTask ==
    /\ pc = "collect"
    /\ \E i \in Running :
        \E o \in {"ok", "internal_fault", "raised"} :
            /\ o # "ok" => Cardinality(Faults) < MaxFaults
            /\ futures' = [futures EXCEPT ![i] = [state |-> "finished", outcome |-> o]]
    /\ UNCHANGED <<fn, arg, ret, pc, raw_products, enhanced_products,
                   promising_products, report, files>>

\* A running task blocks for good: nothing in the task or in the executor
\* ends it.
HangTask ==
    /\ pc = "collect"
    /\ Cardinality(Faults) < MaxFaults
    /\ \E i \in Running : futures' = [futures EXCEPT ![i].state = "hung"]
    /\ UNCHANGED <<fn, arg, ret, pc, raw_products, enhanced_products,
                   promising_products, report, files>>

\* A variant of the loop body that keeps the bare record of a task that raised.
CollectResult_keepraised(analyzer, products, outcome, product_data) ==
    IF outcome = "ok" THEN Append(products, enhance(analyzer, product_data))
    ELSE Append(products, enhance_except(analyzer, product_data))

\* A variant of the loop body in which a result that arrives after the result
\* of a later record is lost.
CollectResult_lossy(analyzer, products, outcome, product_data) ==
    IF outcome = "raised" THEN products
    ELSE IF \E k \in 1..Len(products) : products[k].rank > product_data.rank
    THEN products
    ELSE Append(products, IF outcome = "ok" THEN enhance(analyzer, product_data)
                          ELSE enhance_except(analyzer, product_data))

\* The body of the as_completed loop: future.result(timeout=...) of a finished
\* future returns its result at once, or raises what the task raised; the
\* except clause of the loop logs and goes on.
CollectResult(analyzer, products, outcome, product_data) ==
    CASE outcome = "ok" -> Append(products, enhance(analyzer, product_data))
      [] outcome = "internal_fault" ->
             Append(products, enhance_except(analyzer, product_data))
      [] outcome = "raised" -> products

\* One round of the as_completed loop. The futures that finished before the
\* loop asked for them come in the order of a set, the later ones as they
\* finish: the loop can meet the finished futures in any order. as_completed
\* is called without a timeout: it yields nothing while no future is finished.
Collect ==
    /\ pc = "collect"
    /\ \E i \in Finished :
        /\ futures' = [futures EXCEPT ![i].state = "yielded"]
        /\ enhanced_products' =
              CollectResult(arg.analyzer, enhanced_products, futures[i].outcome,
                            raw_products[i])
    /\ UNCHANGED <<fn, arg, ret, pc, raw_products, promising_products, report, files>>

\* The loop and the with block are left when every future has been yielded.
Rank ==
    /\ pc = "collect"
    /\ \A i \in 1..Len(futures) : futures[i].state = "yielded"
    /\ promising_products' = rank_promising_products(enhanced_products)
    /\ pc' = "report"
    /\ UNCHANGED <<fn, arg, ret, raw_products, futures, enhanced_products, report, files>>

\* generate_enhanced_markdown_report(enhanced_products, promising_products):
\* the 'first three of the day' section is products[:3]; with no product the
\* statistics divide by zero and the except clause returns the failure text.
Report ==
    /\ pc = "report"
    /\ report' = IF Len(enhanced_products) = 0
                 THEN <<[ok |-> FALSE, text |-> ReportFailureText, products |-> << >>,
                         top_three |-> << >>, promising |-> << >>]>>
                 ELSE <<[ok |-> TRUE, text |-> "report", products |-> enhanced_products,
                         top_three |-> Take(enhanced_products, TopN),
                         promising |-> promising_products]>>
    /\ pc' = "save"
    /\ UNCHANGED <<fn, arg, ret, raw_products, futures, enhanced_products,
                   promising_products, files>>

\* os.makedirs, open and write, return report_path; when one of them raises,
\* the except clause of run_analysis returns the failure string.
Save ==
    /\ pc = "save"
    /\ IF arg.disk = "ok"
       THEN /\ files' = files \cup {[path |-> ReportPath, content |-> report[1]]}
            /\ ret' = ReportPath
       ELSE /\ ret' = FailureOf("OSError")
            /\ UNCHANGED files
    /\ pc' = "done"
    /\ UNCHANGED <<fn, arg, raw_products, futures, enhanced_products,
                   promising_products, report>>

Next ==
    \/ Fetch
    \/ Submit
    \/ StartTask
    \/ FinishTask
    \/ HangTask
    \/ Collect
    \/ Rank
    \/ Report
    \/ Save

Spec == Init /\ [][Next]_vars

AscendingRanks(products) ==
    \A i, j \in 1..Len(products) : i < j => products[i].rank < products[j].rank

\* C5: in run_analysis, for every order in which the enrichment tasks
\* complete, the record list handed to top-3 selection and to report
\* rendering (whose 'first three of the day' section takes the first three
\* entries) is in ascending original rank order.
C5_RankOrderRestored ==
    /\ pc \in {"report", "save", "done"} => AscendingRanks(enhanced_products)
    /\ Len(report) > 0 =>
          AscendingRanks(report[1].products) /\ AscendingRanks(report[1].top_three)

\* The loop over the futures is over: the enriched set is the one ranking and
\* rendering are given.
Collected == pc \in {"report", "save", "done"} /\ Len(futures) > 0

\* The ranks of the records of a list.
RanksOf(products) == {products[k].rank : k \in 1..Len(products)}

\* C13: if the enrichment of one record (enhance_product_info run as a pool
\* task) raises a fault, that record is absent from the enriched set used for
\* ranking and rendering, and every record whose enrichment succeeded is
\* present in it.
C13_RaisedTaskDropped ==
    Collected =>
        /\ \A i \in 1..Len(futures) :
              /\ futures[i].outcome = "raised" =>
                    raw_products[i].rank \notin RanksOf(enhanced_products)
              /\ futures[i].outcome = "ok" =>
                    \E k \in 1..Len(enhanced_products) :
                        enhanced_products[k] = enhance(arg.analyzer, raw_products[i])
        /\ Len(report) > 0 /\ report[1].ok => report[1].products = enhanced_products

\* One of three tasks raised and the run is over: two records were enriched.
C13_Witness ==
    /\ pc = "done"
    /\ Len(futures) = 3
    /\ \E i \in 1..Len(futures) : futures[i].outcome = "raised"
    /\ Len(enhanced_products) = 2
    /\ Len(report) > 0 /\ Len(report[1].products) = 2

\* C14: if zero records survive enrichment, run_analysis reports a distinct
\* failure result: it writes no report file and returns no report path.
C14_FailureWhenNoneEnriched ==
    (pc = "done" /\ Len(futures) > 0 /\ Len(enhanced_products) = 0) =>
        /\ ret # ReportPath
        /\ files = {}

(* run_analysis with the scheduling the code relies on: the main thread goes  *)
(* on whenever it can, a free worker takes the next queued task, and a task   *)
(* that has not hung returns. Nothing makes a hung task return.               *)
MaxLiveRegions == 2

InitLive ==
    /\ fn = "run_analysis"
    /\ arg \in RunInputs(MaxLiveRegions)
    /\ ret = NoResult
    /\ pc = "fetch"
    /\ raw_products = << >>
    /\ futures = << >>
    /\ enhanced_products = << >>
    /\ promising_products = << >>
    /\ report = << >>
    /\ files = {}

SpecLive ==
    /\ InitLive
    /\ [][Next]_vars
    /\ WF_vars(Fetch)
    /\ WF_vars(Submit)
    /\ WF_vars(StartTask)
    /\ WF_vars(FinishTask)
    /\ WF_vars(Collect)
    /\ WF_vars(Rank)
    /\ WF_vars(Report)
    /\ WF_vars(Save)

\* C15: each enrichment task is bounded by the per-task timeout: if the
\* enrichment of one record never completes, run_analysis still eventually
\* reaches ranking and report generation with the records whose enrichment
\* completed, the stuck record being dropped.
C15_HungTaskTimesOut == (Hung # {}) ~> (pc \in {"report", "save", "done"})


IsFailure(result) ==
    Len(result) >= Len(FailureOf("")) /\ SubSeq(result, 1, Len(FailureOf(""))) = FailureOf("")

EndsWithMd(path) == Len(path) >= 3 /\ SubSeq(path, Len(path) - 2, Len(path)) = ".md"

\* The run analysed the fallback data.
OnFallback == raw_products = fallback_products_optimized

PoolRecords(analyzer) == IF analyzer = "base" THEN MaxWorkersBase + 1 ELSE MaxWorkers + 1

PoolInputs ==
    {[analyzer |-> a, net |-> "ok", disk |-> "ok",
      doc |-> MakeDoc(a, 1, << >>, << >>,
                      RegionsOf([i \in 1..PoolRecords(a) |-> "good"], 0))] : a \in Analyzers}

InitPool ==
    /\ fn = "run_analysis"
    /\ arg \in PoolInputs
    /\ ret = NoResult
    /\ pc = "fetch"
    /\ raw_products = << >>
    /\ futures = << >>
    /\ enhanced_products = << >>
    /\ promising_products = << >>
    /\ report = << >>
    /\ files = {}

NextPool ==
    \/ Fetch
    \/ Submit
    \/ StartTask
    \/ FinishTask
    \/ HangTask
    \/ Collect

SpecPool == InitPool /\ [][NextPool]_vars

\* C18: at every moment of run_analysis at most the pool size of enrichment
\* tasks run concurrently (3 in the optimized and enhanced analyzers, 5 in the
\* base analyzer), whatever the number of records, and the extraction pass
\* has ended, in the thread of run_analysis, before any enrichment task starts.
C18_PoolBound ==
    /\ arg.analyzer \in {"optimized", "enhanced"} => Cardinality(Busy) <= MaxWorkers
    /\ arg.analyzer = "base" => Cardinality(Busy) <= MaxWorkersBase
    /\ pc = "fetch" => futures = << >>
    /\ Len(futures) > 0 =>
          /\ Len(futures) = Len(raw_products)
          /\ raw_products = fetch_daily_hot(arg.analyzer, arg.net, arg.doc).value

\* Every worker of the pool is busy and a task waits in the queue, in the base
\* analyzer and in another one.
C18_Witness ==
    /\ pc = "collect"
    /\ Pending # {}
    /\ \/ arg.analyzer = "base" /\ Cardinality(Running) = MaxWorkersBase
       \/ arg.analyzer = "optimized" /\ Cardinality(Busy) = MaxWorkers /\ Hung # {}

(* ------------------------------------------------------------------------ *)
(* The cascade and the record extraction run twice on one parsed document.   *)
(* ------------------------------------------------------------------------ *)

\* A variant of the pass that takes the regions it visits out of the tree.
document_after_consumed(analyzer, doc) ==
    [f \in DOMAIN doc |->
        IF f = "select" THEN [j \in DOMAIN doc.select |-> << >>] ELSE << >>]

\* The parsed document after a pass: the cascade and the extraction read the
\* tree (select, find, find_all, get_text, get) and write nothing to it.
document_after(analyzer, doc) == doc

InitTwice ==
    /\ fn = "init"
    /\ arg \in {x \in FetchInputs(Analyzers) : x.net = "ok"}
    /\ ret = << >>
    /\ NoRun

\* The first pass over the parsed document.
FirstPass ==
    /\ fn = "init"
    /\ fn' = "first_pass"
    /\ ret' = <<fetch_daily_hot(arg.analyzer, arg.net, arg.doc)>>
    /\ arg' = [arg EXCEPT !.doc = document_after(arg.analyzer, arg.doc)]
    /\ UNCHANGED runVars

\* The second pass, over the document as the first pass left it.
SecondPass ==
    /\ fn = "first_pass"
    /\ fn' = "second_pass"
    /\ ret' = Append(ret, fetch_daily_hot(arg.analyzer, arg.net, arg.doc))
    /\ arg' = [arg EXCEPT !.doc = document_after(arg.analyzer, arg.doc)]
    /\ UNCHANGED runVars

NextTwice ==
    \/ FirstPass
    \/ SecondPass

SpecTwice == InitTwice /\ [][NextTwice]_vars

MaxOverCap == 5
RatingScores == 0..(ScoreCap + MaxOverCap)

RatingInputs ==
    {[kind |-> "score", score |-> s] : s \in RatingScores}
    \cup {[kind |-> "record", analyzer |-> "optimized", product_data |-> d] :
             d \in EnhanceRecords("optimized")}

InitRating ==
    /\ fn = "init"
    /\ arg \in RatingInputs
    /\ ret = NoResult
    /\ NoRun

GenerateExpertRating ==
    /\ fn = "init"
    /\ arg.kind = "score"
    /\ fn' = "generate_expert_rating"
    /\ ret' = generate_expert_rating(arg.score)
    /\ UNCHANGED arg
    /\ UNCHANGED runVars

EnhanceRated ==
    /\ fn = "init"
    /\ arg.kind = "record"
    /\ fn' = "enhance_product_info"
    /\ ret' = enhance_product_info_call(arg.analyzer, arg.product_data)
    /\ UNCHANGED arg
    /\ UNCHANGED runVars

NextRating ==
    \/ GenerateExpertRating
    \/ EnhanceRated

SpecRating == InitRating /\ [][NextRating]_vars

\* C21: generate_expert_rating maps every score to between 1 and 5 stars (5
\* for score >= 90, 4 for >= 80, 3 for >= 70, 2 for >= 60, otherwise 1), is
\* monotone non-decreasing in the score, and every record enriched by
\* enhance_product_info carries the rating of its own market_potential.
C21_RatingOfScore ==
    /\ fn = "generate_expert_rating" =>
          /\ Len(ret) \in 1..5
          /\ \A i \in 1..Len(ret) : SubSeq(ret, i, i) = "*"
          /\ Len(ret) = (IF arg.score >= 90 THEN 5 ELSE IF arg.score >= 80 THEN 4
                         ELSE IF arg.score >= 70 THEN 3 ELSE IF arg.score >= 60 THEN 2
                         ELSE 1)
          /\ \A lower \in RatingScores :
                lower <= arg.score => Len(generate_expert_rating(lower)) <= Len(ret)
    /\ (fn = "enhance_product_info" /\ ~ret.raised) =>
          /\ ret.value.market_potential = calculate_market_potential(ret.value)
          /\ ret.value.expert_rating = generate_expert_rating(ret.value.market_potential)
          /\ Len(ret.value.expert_rating) =
                (IF ret.value.market_potential >= 90 THEN 5
                 ELSE IF ret.value.market_potential >= 80 THEN 4
                 ELSE IF ret.value.market_potential >= 70 THEN 3
                 ELSE IF ret.value.market_potential >= 60 THEN 2 ELSE 1)

\* A record of the page was enriched to a score on the four-star band.
C21_Witness ==
    /\ fn = "enhance_product_info"
    /\ ~ret.raised
    /\ ret.value.market_potential >= 80
    /\ ret.value.market_potential < 90
    /\ ret.value.expert_rating = "****"

(* ------------------------------------------------------------------------ *)
(* The cascade of strategies alone: find_elements on documents in which      *)
(* several selectors and several strategies find regions.                    *)
(* ------------------------------------------------------------------------ *)

\* The number of regions a strategy must find to be accepted.
Threshold(analyzer) == IF analyzer = "optimized" THEN AcceptThreshold ELSE 1

\* What the second and the third strategy of an analyzer find in a document.
SecondStrategy(analyzer, doc) ==
    CASE analyzer = "optimized" -> LinkParents(doc)
      [] analyzer = "enhanced" ->
           LET KeepBlock(b) == b.has_ordinal /\ b.text_len > BlockTextMin
           IN  Take(SelectSeq(doc.blocks, KeepBlock), EnhancedBlockCap)
      [] analyzer = "base" -> doc.classed

ThirdStrategy(analyzer, doc) ==
    CASE analyzer = "optimized" -> MarkContainers(doc.marks, << >>)
      [] analyzer = "enhanced" ->
           LET KeepParent(par) == ~IsNone(par) /\ par.text_len > ImgParentTextMin
           IN  SelectSeq(Take(doc.imgs, EnhancedImgCap), KeepParent)
      [] analyzer = "base" ->
           LET walked == [i \in 1..Len(doc.ordinals) |->
                             FirstLongAncestor(doc.ordinals[i])]
               Found(par) == ~IsNone(par)
           IN  SelectSeq(walked, Found)

Goods(n, base) == RegionsOf([i \in 1..n |-> "good"], base)

CascadeLens == {0, 1, AcceptThreshold - 1, AcceptThreshold, AcceptThreshold + 1}

\* Documents with regions under the first and the last selector and within
\* reach of the second and the third strategy.
CascadeDocs(analyzer) ==
    {[MakeDoc(analyzer, 1, Goods(s1, 0), second, Goods(n3, 300))
         EXCEPT !.select[NumSelectors(analyzer)] = Goods(s2, 100)] :
        s1 \in CascadeLens, s2 \in CascadeLens,
        second \in {Goods(n2, 200) : n2 \in CascadeLens} \cup {RegionsOf(<<"thin">>, 200)},
        n3 \in {0, 1, AcceptThreshold}}

\* Each region of the list as often as it holds matching hyperlinks.
Repeated(regions, times) ==
    [i \in 1..(Len(regions) * times) |-> regions[((i - 1) \div times) + 1]]

MaxLinksPerRegion == 2

\* Pages of the optimized analyzer whose product regions hold one or more
\* Product Hunt links each (title link, image link).
LinkDocs ==
    {MakeDoc("optimized", 1, << >>, Repeated(Goods(n, 200), times), Goods(n3, 300)) :
        n \in {1, AcceptThreshold \div 2, AcceptThreshold},
        times \in 1..MaxLinksPerRegion, n3 \in {0, 1}}

\* A container that holds nothing but the text node (the vote counter or
\* the ordinal in an element of its own).
TrivialContainer(i) == [Wrapper(i) EXCEPT !.tag = "div"]

\* The chains of ancestors of the marker hits of a page: under n product
\* regions, each hit in a span (nested is FALSE) or in a container of its own,
\* every region holding a number of hits.
MarkerChains(n, nested, hits) ==
    [i \in 1..(n * hits) |->
        LET region == Region("good", 300 + ((i - 1) \div hits) + 1)
        IN  <<IF nested THEN TrivialContainer(400 + i) ELSE Wrapper(400 + i), region>>]

MaxHitsPerRegion == 2

\* Pages that only the marker strategy finds regions in.
MarkerDocs(analyzer) ==
    {[MakeDoc(analyzer, 1, << >>, << >>, << >>)
         EXCEPT ![IF analyzer = "base" THEN "ordinals" ELSE "marks"] =
                    MarkerChains(n, nested, hits)] :
        n \in 1..2, nested \in BOOLEAN, hits \in 1..MaxHitsPerRegion}

InitCascade ==
    /\ fn = "init"
    /\ arg \in UNION {{[analyzer |-> a, doc |-> d] : d \in CascadeDocs(a)} : a \in Analyzers}
               \cup {[analyzer |-> "optimized", doc |-> d] : d \in LinkDocs}
               \cup UNION {{[analyzer |-> a, doc |-> d] : d \in MarkerDocs(a)} :
                              a \in {"optimized", "base"}}
    /\ ret = NoResult
    /\ NoRun

FindElements ==
    /\ fn = "init"
    /\ fn' = "find_elements"
    /\ ret' = find_elements(arg.analyzer, arg.doc)
    /\ UNCHANGED arg
    /\ UNCHANGED runVars

NextCascade == FindElements

SpecCascade == InitCascade /\ [][NextCascade]_vars

\* C22: in fetch_daily_hot the strategies are tried in the fixed order selector
\* list, anchor adjacency, marker token, and within the selector list the
\* patterns in their listed order; as soon as one strategy yields a sequence
\* meeting the acceptance threshold (non-empty in the enhanced analyzer, at
\* least 10 regions in the optimized analyzer) the regions used for extraction
\* are exactly that strategy's regions and no later strategy runs or alters
\* them.
C22_FirstStrategyWins ==
    fn = "find_elements" =>
        LET doc == arg.doc
            T == Threshold(arg.analyzer)
            passing == {k \in 1..Len(doc.select) : Len(doc.select[k]) >= T}
            second == SecondStrategy(arg.analyzer, doc)
            third == ThirdStrategy(arg.analyzer, doc)
        IN  /\ passing # {} =>
                  \E k \in passing : /\ \A j \in passing : k <= j
                                     /\ ret = doc.select[k]
            /\ (passing = {} /\ Len(second) >= T) => ret = second
            /\ (passing = {} /\ Len(second) < T /\ Len(third) >= T) => ret = third

\* The optimized analyzer passed over a first selector with too few matches,
\* took the regions of the last selector and left the links and the vote
\* glyphs of the page aside.
C22_Witness ==
    /\ fn = "find_elements"
    /\ arg.analyzer = "optimized"
    /\ Len(arg.doc.select[1]) = AcceptThreshold - 1
    /\ Len(arg.doc.select[NumSelectorsOptimized]) = AcceptThreshold
    /\ Len(arg.doc.links) > 0
    /\ Len(arg.doc.marks) > 0
    /\ ret = arg.doc.select[NumSelectorsOptimized]

\* No element occurs twice in the sequence.
EachOnce(elements) ==
    \A i, j \in 1..Len(elements) : i < j => elements[i].id # elements[j].id

\* C23: the region sequence produced by the anchor-adjacency strategy contains
\* no container twice: when several matching hyperlinks share the same nearest
\* container ancestor, that container appears once, so one product region
\* never yields two records.
C23_LinkContainersOnce ==
    (fn = "find_elements" /\ arg.analyzer = "optimized"
        /\ ret = LinkParents(arg.doc)) => EachOnce(ret)

\* C24: every region produced by the marker-token strategy is the nearest
\* container ancestor of a marker hit whose text exceeds the minimum length (a
\* shorter wrapper is skipped in favour of a higher ancestor), and no container
\* appears twice in the strategy's result.
C24_MarkerRegions ==
    (fn = "find_elements" /\ arg.analyzer \in {"optimized", "base"}
        /\ ret = ThirdStrategy(arg.analyzer, arg.doc)) =>
        /\ \A i \in 1..Len(ret) :
              /\ ret[i].tag \in ContainerTags
              /\ ret[i].text_len > TrivialContainer(0).text_len
        /\ EachOnce(ret)

(* ------------------------------------------------------------------------ *)
(* The record extraction on headings that carry ordinal markers.             *)
(* ------------------------------------------------------------------------ *)

MaxMarkers == 2
MarkerPieces == {"1. ", "12.", "#2 ", "#34"}
ProductNames == {"Acme", "Bolt AI", "3D Maker"}

RECURSIVE MarkerPrefixes(_)
\* Every run of at most n markers.
MarkerPrefixes(n) ==
    IF n = 0 THEN {""}
    ELSE LET shorter == MarkerPrefixes(n - 1)
         IN  shorter \cup {m \o pre : m \in MarkerPieces, pre \in shorter}

\* A product region whose heading is the raw name.
Headed(raw) == [Region("good", 1) EXCEPT !.heading = raw, !.lines = <<raw, "An AI tool">>]

\* A region in which no heading and no paragraph selector matches: only its
\* text lines are there.
LinesOnly(lines) ==
    [Region("good", 1) EXCEPT !.heading = "", !.para = "", !.lines = lines]

TextLines ==
    {<<"1. Acme", "A great tool for teams">>, <<"#2 Bolt AI", "Kit">>,
     <<"Bolt AI", "Dev kit", "more">>, <<"1. Acme">>}

InitName ==
    /\ fn = "init"
    /\ arg \in {[analyzer |-> a, element |-> Headed(pre \o name)] :
                   a \in {"optimized", "enhanced"},
                   pre \in MarkerPrefixes(MaxMarkers), name \in ProductNames}
               \cup {[analyzer |-> a, element |-> LinesOnly(l)] :
                        a \in {"optimized", "enhanced"}, l \in TextLines}
    /\ ret = NoResult
    /\ NoRun

ExtractInfo ==
    /\ fn = "init"
    /\ fn' = "extract_info"
    /\ ret' = extract_info(arg.analyzer, arg.element, 1)
    /\ UNCHANGED arg
    /\ UNCHANGED runVars

NextName == ExtractInfo

SpecName == InitName /\ [][NextName]_vars

\* C25: the name stored in an extracted record never begins with an ordinal
\* marker (digits followed by a dot, or a hash followed by digits): for every
\* raw name, including raw names that carry both marker kinds or a repeated
\* marker, applying the marker stripping to the stored name again leaves it
\* unchanged.
C25_NameHasNoMarker ==
    (fn = "extract_info" /\ ~IsNone(ret)) =>
        /\ StripOrdinal(ret.name) = ret.name
        /\ StripHash(ret.name) = ret.name

\* C26: when no heading-like and no paragraph-like selector matches inside a
\* region, the extracted name is the region's first non-empty text line with
\* its leading marker stripped and the description is the longer of the first
\* two non-empty text lines; for a region whose flattened text is
\* '1. Acme\nA great tool for teams\n' the record has name 'Acme' and
\* description 'A great tool for teams'.
C26_LinesFallback ==
    (fn = "extract_info" /\ arg.element.heading = "" /\ arg.element.para = ""
        /\ Len(arg.element.lines) >= 2) =>
        LET lines == arg.element.lines
        IN  /\ ~IsNone(ret)
            /\ ret.name = StripHash(StripOrdinal(lines[1]))
            /\ ret.description \in {l \in {lines[1], lines[2]} :
                                       Len(l) >= Len(lines[1]) /\ Len(l) >= Len(lines[2])}
            /\ lines = <<"1. Acme", "A great tool for teams">> =>
                  /\ ret.name = "Acme"
                  /\ ret.description = "A great tool for teams"

\* C27: the candidate-region set used for extraction is empty only if every
\* strategy found zero regions: if the selector list or the anchor-adjacency
\* strategy found between 1 and 9 regions and the marker-token strategy found
\* none, the regions already found are still used, and the fallback data set
\* is not substituted for a document in which some strategy located regions.
C27_FoundRegionsUsed ==
    (Fetched /\ arg.analyzer = "optimized" /\ arg.net = "ok") =>
        LET doc == arg.doc
            located == \/ \E k \in 1..Len(doc.select) : Len(doc.select[k]) > 0
                       \/ Len(LinkParents(doc)) > 0
                       \/ Len(MarkContainers(doc.marks, << >>)) > 0
            used == find_elements("optimized", doc)
        IN  located =>
                /\ Len(used) > 0
                /\ (\A i \in 1..Len(used) : ~IsNone(extract_info("optimized", used[i], i)))
                      => ret.value # fallback_products_optimized

\* C28: a record enriched through enhance_product_info (optimized) can
\* receive the category bonus and the competitive-validation bonus together,
\* so that the maximum score 100 is reachable through the enrichment pipeline:
\* for at least one high-potential category the competitor list produced by
\* identify_competitors has between 1 and 3 names (every competitor list it
\* returns has between 1 and 4 names).
C28_BothBonusesReachable ==
    /\ \E category \in high_potential_categories :
          LET competitors == identify_competitors([category |-> category])
          IN  Len(competitors) >= 1 /\ Len(competitors) <= CompetitionMax
    /\ (Enhanced /\ arg.analyzer = "optimized" /\ ~ret.raised
           /\ SubscriptedKeys \subseteq DOMAIN arg.product_data) =>
          Len(ret.value.competitors) \in 1..4

\* No enrichment task of the run faulted or hung.
NoFault == \A i \in 1..Len(futures) : futures[i].outcome = "ok"

\* C29: when no enrichment task faults, for every interleaving and completion
\* order of the pool tasks the enriched set holds exactly one enriched record
\* per basic record (same ranks, none lost, none duplicated), and each enriched
\* record is the enrichment of its own basic record alone, so the enriched set
\* as a multiset is the same in every interleaving.
C29_OneRecordEach ==
    (Collected /\ NoFault) =>
        /\ Len(enhanced_products) = Len(raw_products)
        /\ \A i \in 1..Len(raw_products) :
              LET mine == {k \in 1..Len(enhanced_products) :
                              enhanced_products[k].rank = raw_products[i].rank}
              IN  /\ Cardinality(mine) = 1
                  /\ \A k \in mine :
                        enhanced_products[k] = enhance(arg.analyzer, raw_products[i])

\* Three tasks ended without fault and the loop met the last record first.
C29_Witness ==
    /\ pc = "done"
    /\ NoFault
    /\ Len(raw_products) = 3
    /\ Len(enhanced_products) = 3
    /\ enhanced_products[1].rank = raw_products[3].rank
    /\ enhanced_products[3].rank = raw_products[1].rank

\* C30: for every record in the enriched set of the optimized analyzer,
\* whether it came from extraction or from the fallback data set, its category
\* equals classify_product applied to its name, a space and its description;
\* enrichment never carries a category that classification of the record's
\* own text would not produce.
C30_CategoryIsClassified ==
    Collected =>
        \A k \in 1..Len(enhanced_products) :
            \E product_info \in {enhanced_products[k]} :
                product_info.category =
                    classify_product(product_info.name \o " " \o product_info.description)

====
